---- MODULE Spec2Model ----
(***************************************************************************)
(* State-machine model of the MeshCore application layers:                 *)
(*   - the repeater  (examples/simple_repeater/main.cpp, class MyMesh)     *)
(*   - the chat node (src/helpers/BaseChatMesh.cpp, class BaseChatMesh)    *)
(* Handlers are modelled as operators from a state record to a state       *)
(* record, one operator per C++ method, composed in the order of the code. *)
(***************************************************************************)
EXTENDS Integers, Sequences, FiniteSets, TLC

(***************************************************************************)
(* Bounds of the model                                                     *)
(***************************************************************************)
\* small sender timestamps are 0..MaxTs
MaxTs == 2
\* largest value of a uint32_t, scaled down; arithmetic on timestamps is
\* done modulo UINT32_MAX + 1
UINT32_MAX == 7
\* number of packets in the static packet pool
PoolSize == 3
\* the RTC ticks on its own up to this value
MaxRtc == 2

(***************************************************************************)
(* Program constants                                                       *)
(***************************************************************************)
MAX_CLIENTS == 4
\* size of out_path, and the longest path a flooded packet can carry
MAX_PATH_SIZE == 8
CLI_REPLY_DELAY_MILLIS == 1500
ADVERT_DELAY_MILLIS == 800
CMD_GET_STATS == 1

ADMIN_PASSWORD == <<"h", "^", "(", "k", "l", "@", "#", ")">>
FIRMWARE_VER_TEXT == "v1 (build: 24 Jan 2025)"

\* identity of the repeater itself
REPEATER_ID == 0

\* identities (public keys) of the remote peers
Identities == {1, 2}
SmallTimestamps == 0..MaxTs
Timestamps == SmallTimestamps \cup {UINT32_MAX}
U32(n) == n % (UINT32_MAX + 1)

\* hop hashes that may appear in a path, and the paths the model delivers
Paths == {<<>>, <<9>>}
\* how a packet arrived: direct, or by flood with the path it collected
Routes == {[flood |-> FALSE, path |-> <<>>], [flood |-> TRUE, path |-> <<9>>]}

(***************************************************************************)
(* Text helpers: a C string is a sequence of one-character strings          *)
(***************************************************************************)
\* memcmp(s, lit, strlen(lit)) == 0 ; bytes after the end of s are NUL
StartsWith(s, lit) ==
  /\ Len(s) >= Len(lit)
  /\ SubSeq(s, 1, Len(lit)) = lit

\* while (*command == ' ') command++;
RECURSIVE SkipSpaces(_)
SkipSpaces(s) ==
  IF s # <<>> /\ Head(s) = " " THEN SkipSpaces(Tail(s)) ELSE s

Digits == <<"0", "1", "2", "3", "4", "5", "6", "7", "8", "9">>
\* atof() of a string: the value of a leading digit, 0 when there is none
Atof(s) ==
  IF s # <<>> /\ \E d \in 1..10 : Digits[d] = Head(s)
    THEN (CHOOSE d \in 1..10 : Digits[d] = Head(s)) - 1
    ELSE 0

T_reboot == <<"r", "e", "b", "o", "o", "t">>
T_advert == <<"a", "d", "v", "e", "r", "t">>
T_clock_sync == <<"c", "l", "o", "c", "k", " ", "s", "y", "n", "c">>
T_clock == <<"c", "l", "o", "c", "k">>
T_set == <<"s", "e", "t", " ">>
T_AF == <<"A", "F">>
T_af == <<"a", "f">>
T_ver == <<"v", "e", "r">>
T_set_AF_2 == <<"s", "e", "t", " ", "A", "F", "=", "2">>
T_set_xx == <<"s", "e", "t", " ", "x", "x">>
T_unknown == <<"h", "i">>
T_sp_clock_sync == <<" ">> \o T_clock_sync

(***************************************************************************)
(* Identity / crypto                                                       *)
(***************************************************************************)
\* first byte of the public key; identities 1 and 2 share a hash
hash_id(id) == (id + 1) \div 2
\* ECDH shared secret: a function of the unordered pair of keys
calcSharedSecret(a, b) == {a, b}
\* truncated SHA-256 over (timestamp, flags, text, pub_key)
AckHash(timestamp, flags, text, pub) == <<timestamp, flags, text, pub>>

(***************************************************************************)
(* State                                                                   *)
(***************************************************************************)
VARIABLES
  known_clients,   \* repeater: sequence of ClientInfo, Len = num_clients
  rtc,             \* repeater: RTC clock (uint32 seconds)
  pool_free,       \* repeater: free packets in the packet pool
  airtime_factor,  \* repeater: airtime budget factor
  sent,            \* packets enqueued by the last repeater step, in order
  ev,              \* the last repeater step: operation, input, state before
  contacts,        \* chat node: sequence of ContactInfo, Len = num_contacts
  txt_send_timeout,\* chat node: deadline of the ACK wait, 0 when not armed
  expected_ack,    \* chat node: the ACK the application waits for
  millis,          \* chat node: millisecond clock
  chat_pool_free,  \* chat node: free packets in the packet pool
  chat_sent,       \* packets enqueued by the last chat step, in order
  chat_ev,         \* the last chat step: operation, input, state before, upcalls
  hist,            \* history: ACK wait, learned paths, messages, floods
  net,             \* line topology: the frames on the air, each with its receiver
  seen             \* line topology: per node, the packets it has already seen

repVars == <<known_clients, rtc, pool_free, airtime_factor, sent, ev>>
chatVars == <<contacts, txt_send_timeout, expected_ack, millis, chat_pool_free,
              chat_sent, chat_ev, hist>>
\* what a step of the repeater / of the chat node leaves alone
lineVars == <<net, seen>>
nonRepVars == <<chatVars, lineVars>>
nonChatVars == <<repVars, lineVars>>
vars == <<known_clients, rtc, pool_free, airtime_factor, sent, ev,
          contacts, txt_send_timeout, expected_ack, millis, chat_pool_free,
          chat_sent, chat_ev, hist, net, seen>>

num_clients == Len(known_clients)

\* the repeater's state as one record, threaded through a handler
RepState ==
  [known_clients |-> known_clients, rtc |-> rtc, pool_free |-> pool_free,
   airtime_factor |-> airtime_factor, sent |-> <<>>, reply |-> "",
   executed |-> FALSE, rebooted |-> FALSE]

(***************************************************************************)
(* Mesh layer used by the handlers: packet creation and queueing           *)
(***************************************************************************)
\* a packet can be created only while the pool has a free packet
HasFreePacket(st) == st.pool_free > 0

createAck(ack_hash) ==
  [ptype |-> "ACK", dest |-> -1, body |-> ack_hash]
createDatagram(type, dest, secret, data) ==
  [ptype |-> type, dest |-> dest, body |-> [secret |-> secret, data |-> data]]
createPathReturn(dest, secret, path, extra_type, extra) ==
  [ptype |-> "PATH", dest |-> dest,
   body |-> [path |-> path, secret |-> secret,
             extra_type |-> extra_type, extra |-> extra]]
createAdvert(id, app_data) ==
  [ptype |-> "ADVERT", dest |-> -1, body |-> [id |-> id, app_data |-> app_data]]

\* sendFlood / sendDirect take the packet out of the pool and queue it
sendFlood(st, pkt, delay_millis) ==
  [st EXCEPT !.pool_free = @ - 1,
             !.sent = Append(@, [path |-> <<>>, pkt |-> pkt,
                                 route |-> "flood", delay |-> delay_millis])]
sendDirect(st, pkt, path, delay_millis) ==
  [st EXCEPT !.pool_free = @ - 1,
             !.sent = Append(@, [path |-> path, pkt |-> pkt,
                                 route |-> "direct", delay |-> delay_millis])]

(***************************************************************************)
(* Repeater: MyMesh                                                        *)
(***************************************************************************)
\* index of the first client holding identity id, 0 when there is none
ClientIndex(clients, id) ==
  IF \E i \in 1..Len(clients) : clients[i].id = id
    THEN CHOOSE i \in 1..Len(clients) :
           /\ clients[i].id = id
           /\ \A j \in 1..(i - 1) : clients[j].id # id
    ELSE 0

NewClient(id) ==
  [id |-> id, secret |-> calcSharedSecret(REPEATER_ID, id),
   last_timestamp |-> 0,
   out_path_len |-> -1, out_path |-> <<>>]

\* putClient: the table after the call and the index of the returned entry
\* (0 for NULL)
putClient(clients, id) ==
  IF ClientIndex(clients, id) # 0
    THEN [clients |-> clients, idx |-> ClientIndex(clients, id)]
    ELSE IF Len(clients) < MAX_CLIENTS
      THEN [clients |-> Append(clients, NewClient(id)), idx |-> Len(clients) + 1]
      ELSE [clients |-> clients, idx |-> 0]

\* (a variant that answers an unknown command with the bare timestamp)
handleRequest_unknownReplies(st, payload) ==
  IF payload[1] = CMD_GET_STATS
    THEN [reply_len |-> 4 + 1, reply_data |-> <<st.rtc, "stats">>]
    ELSE [reply_len |-> 4, reply_data |-> <<st.rtc>>]

\* handleRequest: reply_data and reply_len for the command byte payload[0]
handleRequest(st, payload) ==
  IF payload[1] = CMD_GET_STATS
    THEN [reply_len |-> 4 + 1, reply_data |-> <<st.rtc, "stats">>]
    ELSE [reply_len |-> 0, reply_data |-> <<st.rtc>>]

\* (a variant that ignores out_path and always floods the datagram)
SendResponse_alwaysFlood(st, client, secret, pkt, reply_data) ==
  IF ~HasFreePacket(st) THEN st
  ELSE IF pkt.flood
    THEN sendFlood(st, createPathReturn(client.id, secret, pkt.path,
                                        "RESPONSE", reply_data), 0)
    ELSE sendFlood(st, createDatagram("RESPONSE", client.id, secret, reply_data), 0)

\* (a variant that answers a flooded request with a plain datagram)
SendResponse_noPathReturn(st, client, secret, pkt, reply_data) ==
  IF ~HasFreePacket(st) THEN st
  ELSE IF client.out_path_len >= 0
    THEN sendDirect(st, createDatagram("RESPONSE", client.id, secret, reply_data),
                    client.out_path, 0)
    ELSE sendFlood(st, createDatagram("RESPONSE", client.id, secret, reply_data), 0)

\* the reply to a request: path-return by flood when the request was flooded,
\* else a datagram, direct when out_path is known, by flood when not
SendResponse(st, client, secret, pkt, reply_data) ==
  IF pkt.flood
    THEN IF HasFreePacket(st)
      THEN sendFlood(st, createPathReturn(client.id, secret, pkt.path,
                                          "RESPONSE", reply_data), 0)
      ELSE st
    ELSE IF HasFreePacket(st)
      THEN IF client.out_path_len >= 0
        THEN sendDirect(st, createDatagram("RESPONSE", client.id, secret, reply_data),
                        client.out_path, 0)
        ELSE sendFlood(st, createDatagram("RESPONSE", client.id, secret, reply_data), 0)
      ELSE st

\* memcmp(&data[4], ADMIN_PASSWORD, strlen(ADMIN_PASSWORD)) == 0
PasswordMatches(pw) == StartsWith(pw, ADMIN_PASSWORD)

\* the replay test of a login: timestamp <= client->last_timestamp
\* (a variant that lets the stored timestamp pass again)
AnonReplayed_equalPasses(timestamp, last_timestamp) == timestamp < last_timestamp
AnonReplayed(timestamp, last_timestamp) == timestamp <= last_timestamp

MyMesh_onAnonDataRecv(st, pkt) ==
  IF pkt.type # "ANON_REQ" THEN st
  ELSE IF ~PasswordMatches(pkt.password) THEN st
  ELSE
    LET put == putClient(st.known_clients, pkt.sender)
        st1 == [st EXCEPT !.known_clients = put.clients]
    IN IF put.idx = 0 \/ AnonReplayed(pkt.timestamp, put.clients[put.idx].last_timestamp)
         THEN st1
         ELSE
           LET st2 == [st1 EXCEPT !.known_clients[put.idx].last_timestamp = pkt.timestamp]
               client == st2.known_clients[put.idx]
           IN SendResponse(st2, client, client.secret, pkt, <<st2.rtc, "OK">>)

sendSelfAdvertisement(st) ==
  IF HasFreePacket(st)
    THEN sendFlood(st, createAdvert(REPEATER_ID, "repeater"), ADVERT_DELAY_MILLIS)
    ELSE st

\* the "clock sync" command
clockSync_allowsEqual(st, sender_timestamp) ==
  IF sender_timestamp >= st.rtc
    THEN [st EXCEPT !.rtc = U32(sender_timestamp + 1), !.reply = "OK - clock set"]
    ELSE [st EXCEPT !.reply = "ERR: clock cannot go backwards"]
clockSync(st, sender_timestamp) ==
  IF sender_timestamp > st.rtc
    THEN [st EXCEPT !.rtc = U32(sender_timestamp + 1), !.reply = "OK - clock set"]
    ELSE [st EXCEPT !.reply = "ERR: clock cannot go backwards"]

handleCommand(st, sender_timestamp, text) ==
  LET command == SkipSpaces(text)
      done == [st EXCEPT !.executed = TRUE]
  IN IF StartsWith(command, T_reboot) THEN
       [done EXCEPT !.rebooted = TRUE]
     ELSE IF StartsWith(command, T_advert) THEN
       [sendSelfAdvertisement(done) EXCEPT !.reply = "OK - Advert sent"]
     ELSE IF StartsWith(command, T_clock_sync) THEN
       clockSync(done, sender_timestamp)
     ELSE IF StartsWith(command, T_clock) THEN
       [done EXCEPT !.reply = <<"UTC", done.rtc>>]
     ELSE IF StartsWith(command, T_set) THEN
       IF StartsWith(SubSeq(command, 5, Len(command)), T_AF)
          \/ StartsWith(SubSeq(command, 5, Len(command)), T_af)
         THEN [done EXCEPT !.airtime_factor = Atof(SubSeq(command, 8, Len(command))),
                           !.reply = "OK"]
         ELSE [done EXCEPT !.reply = <<"unknown config", SubSeq(command, 5, Len(command))>>]
     ELSE IF StartsWith(command, T_ver) THEN
       [done EXCEPT !.reply = FIRMWARE_VER_TEXT]
     ELSE
       [done EXCEPT !.reply = <<"Unknown", command>>]

\* the ACK of a CLI text message: direct when out_path is known, else flood
SendAck(st, client, ack_hash) ==
  IF HasFreePacket(st)
    THEN IF client.out_path_len < 0
      THEN sendFlood(st, createAck(ack_hash), 0)
      ELSE sendDirect(st, createAck(ack_hash), client.out_path, 0)
    ELSE st

\* (a variant that queues the reply in front of the ACK)
SendTextReply_beforeAck(st, client, secret, sender_timestamp) ==
  LET now == st.rtc
      timestamp == IF now = sender_timestamp THEN U32(now + 1) ELSE now
      reply == createDatagram("TXT_MSG", client.id, secret,
                              [timestamp |-> timestamp, flags |-> 0, text |-> st.reply])
  IN IF HasFreePacket(st)
       THEN [st EXCEPT !.pool_free = @ - 1,
                       !.sent = <<[path |-> <<>>, pkt |-> reply, route |-> "flood",
                                   delay |-> CLI_REPLY_DELAY_MILLIS]>> \o @]
       ELSE st
\* (a variant without the workaround for equal timestamps)
SendTextReply_clockOnly(st, client, secret, sender_timestamp) ==
  LET reply == createDatagram("TXT_MSG", client.id, secret,
                              [timestamp |-> st.rtc, flags |-> 0, text |-> st.reply])
  IN IF HasFreePacket(st)
       THEN IF client.out_path_len < 0
         THEN sendFlood(st, reply, CLI_REPLY_DELAY_MILLIS)
         ELSE sendDirect(st, reply, client.out_path, CLI_REPLY_DELAY_MILLIS)
       ELSE st
\* the text reply to a CLI command, CLI_REPLY_DELAY_MILLIS after the ACK
SendTextReply(st, client, secret, sender_timestamp) ==
  LET now == st.rtc
      timestamp == IF now = sender_timestamp THEN U32(now + 1) ELSE now
      reply == createDatagram("TXT_MSG", client.id, secret,
                              [timestamp |-> timestamp, flags |-> 0, text |-> st.reply])
  IN IF HasFreePacket(st)
       THEN IF client.out_path_len < 0
         THEN sendFlood(st, reply, CLI_REPLY_DELAY_MILLIS)
         ELSE sendDirect(st, reply, client.out_path, CLI_REPLY_DELAY_MILLIS)
       ELSE st

\* the replay guard of onPeerDataRecv: timestamp > client->last_timestamp
ReplayGuard_acceptsEqual(timestamp, last_timestamp) == timestamp >= last_timestamp
ReplayGuard(timestamp, last_timestamp) == timestamp > last_timestamp

\* a CLI text is supported only with a zero flags byte: flags != 0
\* (a variant that takes every flags byte)
UnsupportedFlags_never(flags) == FALSE
UnsupportedFlags(flags) == flags # 0

\* i is matching_peer_indexes[sender_idx] (1-based; 0 stands for an invalid index)
MyMesh_onPeerDataRecv(st, i, secret, pkt) ==
  IF i < 1 \/ i > Len(st.known_clients) THEN st
  ELSE
    LET client == st.known_clients[i]
    IN IF pkt.type = "REQ" THEN
         IF ReplayGuard(pkt.timestamp, client.last_timestamp) THEN
           LET req == handleRequest(st, pkt.payload)
           IN IF req.reply_len = 0 THEN st
              ELSE SendResponse([st EXCEPT !.known_clients[i].last_timestamp = pkt.timestamp],
                                client, secret, pkt, req.reply_data)
         ELSE st
       ELSE IF pkt.type = "TXT_MSG" /\ 5 + Len(pkt.text) > 5 THEN
         IF UnsupportedFlags(pkt.flags) THEN st
         ELSE IF ReplayGuard(pkt.timestamp, client.last_timestamp) THEN
           LET st1 == [st EXCEPT !.known_clients[i].last_timestamp = pkt.timestamp]
               ack_hash == AckHash(pkt.timestamp, pkt.flags, pkt.text, client.id)
               st2 == SendAck(st1, client, ack_hash)
               st3 == handleCommand(st2, pkt.timestamp, pkt.text)
           IN IF st3.rebooted THEN st3
              ELSE SendTextReply(st3, client, secret, pkt.timestamp)
         ELSE st
       ELSE st

\* memcpy(out_path, path, out_path_len = path_len) checks path_len against
\* nothing: a path longer than MAX_PATH_SIZE is stored with its length, and
\* its last bytes are written past out_path
MyMesh_onPeerPathRecv(st, i, path) ==
  IF i >= 1 /\ i <= Len(st.known_clients)
    THEN [st EXCEPT !.known_clients[i].out_path_len = Len(path),
                    !.known_clients[i].out_path = path]
    ELSE st

\* what the bytes written past out_path of entry i can leave behind: out_path
\* is the last field of the entry, so they fall into memory that the table
\* does not use, or into the identity of the next entry
CorruptId == 7
memcpyOutcomes(table, i, path) ==
  IF Len(path) <= MAX_PATH_SIZE \/ i < 1 \/ i >= Len(table)
    THEN {table}
    ELSE {table, [table EXCEPT ![i + 1].id = CorruptId]}

\* MyMesh::searchPeersByHash: the indexes of the clients with a matching hash,
\* in table order
\* (a variant that stops at the first match)
RECURSIVE MatchingFrom_stopsAtFirst(_, _, _)
MatchingFrom_stopsAtFirst(clients, hash, i) ==
  IF i > Len(clients) THEN <<>>
  ELSE IF hash_id(clients[i].id) = hash THEN <<i>>
  ELSE MatchingFrom_stopsAtFirst(clients, hash, i + 1)
RECURSIVE MatchingFrom(_, _, _)
MatchingFrom(clients, hash, i) ==
  IF i > Len(clients) THEN <<>>
  ELSE IF hash_id(clients[i].id) = hash
    THEN <<i>> \o MatchingFrom(clients, hash, i + 1)
    ELSE MatchingFrom(clients, hash, i + 1)
MyMesh_searchPeersByHash(clients, hash) == MatchingFrom(clients, hash, 1)

(***************************************************************************)
(* Chat node: BaseChatMesh                                                 *)
(***************************************************************************)
\* identity of the chat node itself
CHAT_ID == 3
\* longest text composeMsgPacket accepts (scaled down)
MAX_TEXT_LEN == 2
\* the millisecond clock runs up to this value
MaxMillis == 3
\* milliseconds per second of the RTC (scaled down)
MillisPerSec == 2

MSG_SEND_FAILED == 0
MSG_SEND_SENT_FLOOD == 1
MSG_SEND_SENT_DIRECT == 2

\* "no ACK expected"
NoAck == <<>>

\* the chat node's state as one record, threaded through a handler
ChatState ==
  [pool_free |-> chat_pool_free, sent |-> <<>>,
   contacts |-> contacts, txt_send_timeout |-> txt_send_timeout,
   expected_ack |-> expected_ack, millis |-> millis, upcalls |-> <<>>,
   rc |-> -1, do_not_retransmit |-> FALSE]

\* getRTCClock()->getCurrentTime() of the chat node
ChatRtc(st) == st.millis \div MillisPerSec

\* Dispatcher::futureMillis / millisHasNowPassed
futureMillis(st, millis_from_now) == st.millis + millis_from_now
millisHasNowPassed(st, timestamp) == st.millis - timestamp > 0

\* the application's timeouts for a flood and for a direct send
calcFloodTimeoutMillisFor(pkt_airtime_millis) == 2
calcDirectTimeoutMillisFor(pkt_airtime_millis, path_len) == 1 + path_len

\* the application's processAck: the ACK matches the one it waits for; the
\* expected ACK is forgotten once matched
processAck(st, ack) == st.expected_ack # NoAck /\ ack = st.expected_ack
AfterProcessAck(st, ack) ==
  IF processAck(st, ack) THEN [st EXCEPT !.expected_ack = NoAck] ELSE st

Upcall(st, call) == [st EXCEPT !.upcalls = Append(@, call)]

NewContact(id) ==
  [id |-> id, type |-> 0, out_path_len |-> -1, out_path |-> <<>>,
   name |-> "",
   last_advert_timestamp |-> 0, shared_secret |-> calcSharedSecret(CHAT_ID, id)]

\* index of the first contact holding identity id, 0 when there is none
ContactIndex(cs, id) ==
  IF \E i \in 1..Len(cs) : cs[i].id = id
    THEN CHOOSE i \in 1..Len(cs) :
           /\ cs[i].id = id
           /\ \A j \in 1..(i - 1) : cs[j].id # id
    ELSE 0

\* number of contacts the table holds (scaled down)
MAX_CONTACTS == 2

\* parser.isValid() && parser.hasName()
\* (a variant that accepts an advert without a name)
AdvertDataOk_nameOptional(app_data) == app_data.valid
AdvertDataOk(app_data) == app_data.valid /\ app_data.has_name

\* the replay check of onAdvertRecv: timestamp <= from->last_advert_timestamp
\* (a variant that lets an advert with an equal timestamp pass)
AdvertReplayed_equalPasses(timestamp, last_advert_timestamp) ==
  timestamp < last_advert_timestamp
AdvertReplayed(timestamp, last_advert_timestamp) ==
  timestamp <= last_advert_timestamp

\* !(num_contacts < MAX_CONTACTS)
\* (a variant that never finds the table full)
ContactTableFull_never(cs) == FALSE
ContactTableFull(cs) == ~(Len(cs) < MAX_CONTACTS)

BaseChatMesh_onAdvertRecv(st, pkt) ==
  IF ~AdvertDataOk(pkt.app_data) THEN st
  ELSE
    LET k == ContactIndex(st.contacts, pkt.id)
    IN IF k # 0 /\ AdvertReplayed(pkt.timestamp, st.contacts[k].last_advert_timestamp)
         THEN st
       ELSE IF k = 0 /\ ContactTableFull(st.contacts) THEN st
       ELSE
         LET is_new == (k = 0)
             cs == IF is_new THEN Append(st.contacts, NewContact(pkt.id))
                             ELSE st.contacts
             i == IF is_new THEN Len(cs) ELSE k
             st1 == [st EXCEPT !.contacts =
                       [cs EXCEPT ![i].name = pkt.app_data.name,
                                  ![i].type = pkt.app_data.type,
                                  ![i].last_advert_timestamp = pkt.timestamp]]
         IN Upcall(st1, [idx |-> i, call |-> "onDiscoveredContact", is_new |-> is_new])

\* upper limit of candidates searchPeersByHash returns
MAX_SEARCH_RESULTS == 8

RECURSIVE ChatMatchingFrom(_, _, _, _)
ChatMatchingFrom(cs, hash, i, n) ==
  IF ~(i <= Len(cs) /\ n < MAX_SEARCH_RESULTS) THEN <<>>
  ELSE IF hash_id(cs[i].id) = hash
    THEN <<i>> \o ChatMatchingFrom(cs, hash, i + 1, n + 1)
    ELSE ChatMatchingFrom(cs, hash, i + 1, n)
BaseChatMesh_searchPeersByHash(cs, hash) == ChatMatchingFrom(cs, hash, 1, 0)

\* (a variant that answers a flood-routed message with a plain ACK too)
BaseChatMesh_onPeerDataRecv_plainAck(st, i, secret, pkt) ==
  IF pkt.type = "TXT_MSG" /\ 5 + Len(pkt.text) > 5 THEN
    IF i < 1 \/ i > Len(st.contacts) THEN st
    ELSE
      LET from == st.contacts[i]
      IN IF pkt.flags \div 4 = 0 THEN
           LET st1 == Upcall(st, [flood |-> pkt.flood, timestamp |-> pkt.timestamp,
                                  text |-> pkt.text, idx |-> i,
                                  call |-> "onMessageRecv"])
               ack_hash == AckHash(pkt.timestamp, pkt.flags, pkt.text, from.id)
           IN IF HasFreePacket(st1)
                THEN IF from.out_path_len < 0
                  THEN sendFlood(st1, createAck(ack_hash), 0)
                  ELSE sendDirect(st1, createAck(ack_hash), from.out_path, 0)
                ELSE st1
         ELSE st
  ELSE st

BaseChatMesh_onPeerDataRecv(st, i, secret, pkt) ==
  IF pkt.type = "TXT_MSG" /\ 5 + Len(pkt.text) > 5 THEN
    IF i < 1 \/ i > Len(st.contacts) THEN st
    ELSE
      LET from == st.contacts[i]
      IN IF pkt.flags \div 4 = 0 THEN
           LET st1 == Upcall(st, [flood |-> pkt.flood, timestamp |-> pkt.timestamp,
                                  text |-> pkt.text, idx |-> i,
                                  call |-> "onMessageRecv"])
               ack_hash == AckHash(pkt.timestamp, pkt.flags, pkt.text, from.id)
           IN IF pkt.flood
                THEN IF HasFreePacket(st1)
                  THEN sendFlood(st1, createPathReturn(from.id, secret, pkt.path,
                                                       "ACK", ack_hash), 0)
                  ELSE st1
                ELSE IF HasFreePacket(st1)
                  THEN IF from.out_path_len < 0
                    THEN sendFlood(st1, createAck(ack_hash), 0)
                    ELSE sendDirect(st1, createAck(ack_hash), from.out_path, 0)
                  ELSE st1
         ELSE st
  ELSE st

\* (a variant that cancels the ACK wait on every piggy-backed ACK)
BaseChatMesh_onPeerPathRecv_anyAck(st, i, path, extra_type, extra) ==
  IF i < 1 \/ i > Len(st.contacts) THEN st
  ELSE
    LET st1 == [st EXCEPT !.contacts[i].out_path_len = Len(path),
                          !.contacts[i].out_path = path]
        st2 == Upcall(st1, [idx |-> i, call |-> "onContactPathUpdated"])
    IN IF extra_type = "ACK"
         THEN [AfterProcessAck(st2, extra) EXCEPT !.txt_send_timeout = 0]
         ELSE st2

\* (a variant that keeps the old out_path when one is already known)
BaseChatMesh_onPeerPathRecv_keepsOld(st, i, path, extra_type, extra) ==
  IF i < 1 \/ i > Len(st.contacts) THEN st
  ELSE
    LET st1 == IF st.contacts[i].out_path_len >= 0 THEN st
               ELSE [st EXCEPT !.contacts[i].out_path_len = Len(path),
                               !.contacts[i].out_path = path]
        st2 == Upcall(st1, [idx |-> i, call |-> "onContactPathUpdated"])
    IN IF extra_type = "ACK" /\ processAck(st2, extra)
         THEN [AfterProcessAck(st2, extra) EXCEPT !.txt_send_timeout = 0]
         ELSE st2

BaseChatMesh_onPeerPathRecv(st, i, path, extra_type, extra) ==
  IF i < 1 \/ i > Len(st.contacts) THEN st
  ELSE
    LET st1 == [st EXCEPT !.contacts[i].out_path_len = Len(path),
                          !.contacts[i].out_path = path]
        st2 == Upcall(st1, [idx |-> i, call |-> "onContactPathUpdated"])
    IN IF extra_type = "ACK" /\ processAck(st2, extra)
         THEN [AfterProcessAck(st2, extra) EXCEPT !.txt_send_timeout = 0]
         ELSE st2

\* (a variant that forgets to cancel the timeout)
BaseChatMesh_onAckRecv_noCancel(st, ack_crc) ==
  IF processAck(st, ack_crc)
    THEN [AfterProcessAck(st, ack_crc) EXCEPT !.do_not_retransmit = TRUE]
    ELSE st

BaseChatMesh_onAckRecv(st, ack_crc) ==
  IF processAck(st, ack_crc)
    THEN [AfterProcessAck(st, ack_crc) EXCEPT !.txt_send_timeout = 0,
                                              !.do_not_retransmit = TRUE]
    ELSE st

BaseChatMesh_onGroupDataRecv(st, pkt) ==
  IF pkt.type = "GRP_TXT" /\ 5 + Len(pkt.text) > 5 /\ pkt.flags \div 4 = 0
    THEN Upcall(st, [timestamp |-> pkt.timestamp,
                     text |-> pkt.text,
                     path_len |-> IF pkt.flood THEN Len(pkt.path) ELSE -1,
                     call |-> "onChannelMessageRecv"])
    ELSE st

\* composeMsgPacket: whether it returned NULL, the packet otherwise, and
\* whether and what it wrote to the caller's expected_ack
composeMsgPacket(st, recipient, attempt, text) ==
  IF Len(text) > MAX_TEXT_LEN
    THEN [expected_ack |-> NoAck, pkt |-> <<>>, null |-> TRUE, wrote_ack |-> FALSE]
    ELSE
      LET timestamp == ChatRtc(st)
          flags == attempt % 4
          data == [timestamp |-> timestamp, flags |-> flags, text |-> text]
      IN [expected_ack |-> AckHash(timestamp, flags, text, CHAT_ID),
          pkt |-> createDatagram("TXT_MSG", recipient.id, recipient.shared_secret, data),
          null |-> ~HasFreePacket(st),
          wrote_ack |-> TRUE]

\* the caller's expected_ack after composeMsgPacket
ComposeEffect(st, c) ==
  IF c.wrote_ack THEN [st EXCEPT !.expected_ack = c.expected_ack] ELSE st

\* (a variant that floods although out_path is known)
sendMessage_alwaysFlood(st, r, attempt, text) ==
  LET recipient == st.contacts[r]
      c == composeMsgPacket(st, recipient, attempt, text)
      st1 == ComposeEffect(st, c)
  IN IF c.null THEN [st1 EXCEPT !.rc = MSG_SEND_FAILED]
     ELSE [sendFlood(st1, c.pkt, 0) EXCEPT
             !.txt_send_timeout = futureMillis(st, calcFloodTimeoutMillisFor(1)),
             !.rc = MSG_SEND_SENT_FLOOD]

\* sendMessage to the contact at index r; expected_ack is the application's
\* variable, passed by reference
sendMessage(st, r, attempt, text) ==
  LET recipient == st.contacts[r]
      c == composeMsgPacket(st, recipient, attempt, text)
      st1 == ComposeEffect(st, c)
  IN IF c.null THEN [st1 EXCEPT !.rc = MSG_SEND_FAILED]
     ELSE IF recipient.out_path_len < 0
       THEN [sendFlood(st1, c.pkt, 0) EXCEPT
               !.txt_send_timeout = futureMillis(st, calcFloodTimeoutMillisFor(1)),
               !.rc = MSG_SEND_SENT_FLOOD]
       ELSE [sendDirect(st1, c.pkt, recipient.out_path, 0) EXCEPT
               !.txt_send_timeout =
                  futureMillis(st, calcDirectTimeoutMillisFor(1, recipient.out_path_len)),
               !.rc = MSG_SEND_SENT_DIRECT]

\* resetPathTo: only the length is reset, the stored bytes stay
resetPathTo(st, r) ==
  IF st.contacts[r].out_path_len >= 0
    THEN [st EXCEPT !.contacts[r].out_path_len = -1]
    ELSE st

\* addContact: the table after the call and the value returned
addContact(st, contact) ==
  IF ~ContactTableFull(st.contacts)
    THEN [st EXCEPT !.contacts =
            Append(@, [contact EXCEPT
                         !.shared_secret = calcSharedSecret(CHAT_ID, contact.id)]),
                    !.rc = 1]
    ELSE [st EXCEPT !.rc = 0]

\* (a variant that leaves the timer armed after the timeout)
BaseChatMesh_loop_staysArmed(st) ==
  IF st.txt_send_timeout # 0 /\ millisHasNowPassed(st, st.txt_send_timeout)
    THEN Upcall(st, [call |-> "onSendTimeout"])
    ELSE st

\* (a variant that never looks at the timer)
BaseChatMesh_loop_noTimeout(st) == st

\* the part of BaseChatMesh::loop() after Mesh::loop()
BaseChatMesh_loop(st) ==
  IF st.txt_send_timeout # 0 /\ millisHasNowPassed(st, st.txt_send_timeout)
    THEN [Upcall(st, [call |-> "onSendTimeout"]) EXCEPT !.txt_send_timeout = 0]
    ELSE st

(***************************************************************************)
(* Mesh dispatcher for peer-keyed packets: the candidates found by          *)
(* searchPeersByHash are tried in order, the first whose shared secret     *)
(* authenticates the packet wins; 0 when none does (packet dropped)        *)
(***************************************************************************)
RECURSIVE FirstAuthenticating(_, _, _, _)
FirstAuthenticating(clients, cands, secret, j) ==
  IF j > Len(cands) THEN 0
  ELSE IF clients[cands[j]].secret = secret THEN cands[j]
  ELSE FirstAuthenticating(clients, cands, secret, j + 1)

MyMesh_dispatchPeer(clients, sender) ==
  FirstAuthenticating(clients, MyMesh_searchPeersByHash(clients, hash_id(sender)),
                      calcSharedSecret(REPEATER_ID, sender), 1)

(***************************************************************************)
(* Repeater: initial state and steps                                       *)
(***************************************************************************)
NoEvent ==
  [reply |-> "", executed |-> FALSE, rebooted |-> FALSE, pkt |-> <<>>,
   idx |-> 0, op |-> "none", pre |-> <<>>]

\* the state after the constructor and setup(): empty client table, and the
\* initial advertisement queued by sendSelfAdvertisement()
BootState(clock) ==
  sendSelfAdvertisement(
    [known_clients |-> <<>>, rtc |-> clock, pool_free |-> PoolSize,
     airtime_factor |-> 1, sent |-> <<>>, reply |-> "",
     executed |-> FALSE, rebooted |-> FALSE])

PreState ==
  [known_clients |-> known_clients, rtc |-> rtc, pool_free |-> pool_free,
   airtime_factor |-> airtime_factor]

\* the state a handler leaves behind: after "reboot" the board starts again
AfterHandler(st) == IF st.rebooted THEN BootState(st.rtc) ELSE st

\* the result st of a handler that ran on input pkt becomes the repeater's state
RepApply(op, pkt, idx, st) ==
  LET fin == AfterHandler(st)
  IN /\ known_clients' = fin.known_clients
     /\ rtc' = fin.rtc
     /\ pool_free' = fin.pool_free
     /\ airtime_factor' = fin.airtime_factor
     /\ sent' = fin.sent
     /\ ev' = [reply |-> st.reply, executed |-> st.executed, rebooted |-> st.rebooted, pkt |-> pkt,
               idx |-> idx, op |-> op,
               pre |-> PreState]

\* commit the result st of a handler that ran on input pkt
RepCommit(op, pkt, idx, st) ==
  /\ RepApply(op, pkt, idx, st)
  /\ UNCHANGED nonRepVars

InLoop == ev.op = "none"

\* the RTC keeps its time across restarts: it starts at any value up to MaxRtc
RepInit ==
  /\ rtc \in 0..MaxRtc
  /\ known_clients = BootState(rtc).known_clients
  /\ pool_free = BootState(rtc).pool_free
  /\ airtime_factor = BootState(rtc).airtime_factor
  /\ sent = BootState(rtc).sent
  /\ ev = [NoEvent EXCEPT !.op = "boot"]

\* an ANON_REQ addressed to the repeater is received
RecvAnonReq(packets) ==
  /\ InLoop
  /\ \E pkt \in packets :
       RepCommit("anon", pkt, 0, MyMesh_onAnonDataRecv(RepState, pkt))

\* a REQ or TXT_MSG is received; the dispatcher looks the sender up and calls
\* onPeerDataRecv when one of the candidates authenticates
RecvPeerData(packets) ==
  /\ InLoop
  /\ \E pkt \in packets :
       LET i == MyMesh_dispatchPeer(known_clients, pkt.sender)
       IN IF i = 0
            THEN RepCommit("peer", pkt, 0, RepState)
            ELSE RepCommit("peer", pkt, i,
                           MyMesh_onPeerDataRecv(RepState, i, known_clients[i].secret, pkt))

\* a path-return from a peer is received
RecvPeerPath(packets) ==
  /\ InLoop
  /\ \E pkt \in packets :
       LET i == MyMesh_dispatchPeer(known_clients, pkt.sender)
           st == MyMesh_onPeerPathRecv(RepState, i, pkt.path)
       IN \E table \in memcpyOutcomes(st.known_clients, i, pkt.path) :
            RepCommit("path", pkt, i, [st EXCEPT !.known_clients = table])

\* loop(): a complete line was read from the serial port
SerialCommand(texts) ==
  /\ InLoop
  /\ \E text \in texts :
       RepCommit("serial", [text |-> text], 0, handleCommand(RepState, 0, text))

\* the handler has returned to loop(); its record is cleared
ReturnToLoop ==
  /\ ~InLoop
  /\ ev' = NoEvent
  /\ sent' = <<>>
  /\ UNCHANGED <<known_clients, rtc, pool_free, airtime_factor>>
  /\ UNCHANGED nonRepVars

\* a second passes on the RTC
Tick ==
  /\ InLoop
  /\ rtc < MaxRtc
  /\ rtc' = rtc + 1
  /\ UNCHANGED <<known_clients, pool_free, airtime_factor, sent, ev>>
  /\ UNCHANGED nonRepVars

\* Mesh::loop() transmits a queued packet and returns it to the pool
Transmit ==
  /\ InLoop
  /\ pool_free < PoolSize
  /\ pool_free' = pool_free + 1
  /\ UNCHANGED <<known_clients, rtc, airtime_factor, sent, ev>>
  /\ UNCHANGED nonRepVars

\* a received flood packet is queued for retransmission (allowPacketForward)
\* (a variant that forwards nothing)
allowPacketForward_never == FALSE
allowPacketForward == TRUE
ForwardFlood ==
  /\ InLoop
  /\ allowPacketForward
  /\ pool_free > 0
  /\ pool_free' = pool_free - 1
  /\ UNCHANGED <<known_clients, rtc, airtime_factor, sent, ev>>
  /\ UNCHANGED nonRepVars

(***************************************************************************)
(* Inputs                                                                  *)
(***************************************************************************)
WrongPassword == <<"h", "^", "(", "k", "l", "@", "#", "!">>
Passwords == {ADMIN_PASSWORD, ADMIN_PASSWORD \o <<"x">>, WrongPassword,
              SubSeq(ADMIN_PASSWORD, 1, 7)}

AnonPackets(ids, tss, pws) ==
  {[flood |-> r.flood, path |-> r.path, timestamp |-> ts, type |-> "ANON_REQ",
    password |-> pw, sender |-> id] :
     id \in ids, ts \in tss, pw \in pws, r \in Routes}

ReqPackets(ids, tss) ==
  {[flood |-> r.flood, path |-> r.path, timestamp |-> ts, type |-> "REQ",
    payload |-> <<cmd>>, sender |-> id] :
     id \in ids, ts \in tss, cmd \in {CMD_GET_STATS, 2}, r \in Routes}

TxtPackets(ids, tss, flagss, texts) ==
  {[flood |-> r.flood, path |-> r.path, timestamp |-> ts, flags |-> fl,
    text |-> tx, type |-> "TXT_MSG", sender |-> id] :
     id \in ids, ts \in tss, fl \in flagss, tx \in texts, r \in Routes}

PathPackets(ids) ==
  {[path |-> p, type |-> "PATH", sender |-> id] : id \in ids, p \in {<<9>>}}
PathPacketsWith(ids, paths) ==
  {[path |-> p, type |-> "PATH", sender |-> id] : id \in ids, p \in paths}

(***************************************************************************)
(* Chat node: dispatcher, initial state and steps                          *)
(***************************************************************************)
RECURSIVE ChatFirstAuthenticating(_, _, _, _)
ChatFirstAuthenticating(cs, cands, secret, j) ==
  IF j > Len(cands) THEN 0
  ELSE IF cs[cands[j]].shared_secret = secret THEN cands[j]
  ELSE ChatFirstAuthenticating(cs, cands, secret, j + 1)

BaseChatMesh_dispatchPeer(cs, sender) ==
  ChatFirstAuthenticating(cs, BaseChatMesh_searchPeersByHash(cs, hash_id(sender)),
                          calcSharedSecret(CHAT_ID, sender), 1)

NoChatEvent ==
  [pkt |-> <<>>, idx |-> 0, upcalls |-> <<>>, rc |-> -1, do_not_retransmit |-> FALSE,
   op |-> "none", pre |-> <<>>]

ChatPre ==
  [pool_free |-> chat_pool_free, contacts |-> contacts,
   txt_send_timeout |-> txt_send_timeout, expected_ack |-> expected_ack,
   millis |-> millis, hist |-> hist]

ChatInit ==
  /\ contacts = <<>>
  /\ txt_send_timeout = 0
  /\ expected_ack = NoAck
  /\ millis = 0
  /\ chat_pool_free = PoolSize
  /\ chat_sent = <<>>
  /\ chat_ev = NoChatEvent
  /\ hist = [cancelled |-> NoAck, fired |-> 0, learned |-> <<>>,
             received |-> <<>>, forwarded |-> <<>>, handled |-> <<>>]

\* no line topology: nothing on the air
LineIdle ==
  /\ net = {}
  /\ seen = <<>>

HasUpcall(upcalls, name) == \E k \in 1..Len(upcalls) : upcalls[k].call = name
CountUpcalls(upcalls, name) ==
  Cardinality({k \in 1..Len(upcalls) : upcalls[k].call = name})

NoPath == [path |-> <<>>, known |-> FALSE, replaced |-> FALSE]
\* no message of the contact has been passed to the application yet
NoMessage == -1

\* the history after a step: which ACK cancelled the wait since the last
\* sendMessage, how often the timeout fired since the timer was last armed,
\* for every contact the path of the last path-return since its out_path
\* was last reset, and for every contact the timestamp of the last message
\* of it that was passed to onMessageRecv (forwarded and handled count the
\* packets of a flood and belong to the line of repeaters)
NextHist(op, pkt, idx, st) ==
  LET armed == op = "send" /\ st.rc # MSG_SEND_FAILED
      cancelled == op \in {"ack", "path"} /\ txt_send_timeout # 0
                   /\ st.txt_send_timeout = 0
      grown == [k \in 1..Len(st.contacts) |->
                  IF k <= Len(hist.learned) THEN hist.learned[k] ELSE NoPath]
  IN [cancelled |-> IF op = "send" THEN NoAck
                    ELSE IF cancelled THEN expected_ack
                    ELSE hist.cancelled,
      fired |-> IF armed THEN 0
                ELSE hist.fired + CountUpcalls(st.upcalls, "onSendTimeout"),
      learned |-> IF op = "path" /\ idx # 0
                    THEN [grown EXCEPT ![idx] =
                            [path |-> pkt.path, known |-> TRUE,
                             replaced |-> /\ contacts[idx].out_path_len >= 0
                                          /\ contacts[idx].out_path # pkt.path]]
                  ELSE IF op = "reset" THEN [grown EXCEPT ![idx] = NoPath]
                  ELSE grown,
      received |-> [k \in 1..Len(st.contacts) |->
                      IF op = "peer" /\ idx = k /\ HasUpcall(st.upcalls, "onMessageRecv")
                        THEN pkt.timestamp
                      ELSE IF k <= Len(hist.received) THEN hist.received[k]
                      ELSE NoMessage],
      forwarded |-> hist.forwarded,
      handled |-> hist.handled]

\* the result st of a handler that ran on input pkt becomes the node's state
ChatApply(op, pkt, idx, st) ==
  /\ contacts' = st.contacts
  /\ txt_send_timeout' = st.txt_send_timeout
  /\ expected_ack' = st.expected_ack
  /\ chat_pool_free' = st.pool_free
  /\ chat_sent' = st.sent
  /\ chat_ev' = [pkt |-> pkt, idx |-> idx, upcalls |-> st.upcalls, rc |-> st.rc,
                 do_not_retransmit |-> st.do_not_retransmit, op |-> op,
                 pre |-> ChatPre]
  /\ hist' = NextHist(op, pkt, idx, st)
  /\ UNCHANGED millis

\* commit the result st of a handler that ran on input pkt
ChatCommit(op, pkt, idx, st) ==
  /\ ChatApply(op, pkt, idx, st)
  /\ UNCHANGED nonChatVars

InChatLoop == chat_ev.op = "none"

ChatRecvAdvert(packets) ==
  /\ InChatLoop
  /\ \E pkt \in packets :
       ChatCommit("advert", pkt, 0, BaseChatMesh_onAdvertRecv(ChatState, pkt))

ChatRecvPeerData(packets) ==
  /\ InChatLoop
  /\ \E pkt \in packets :
       LET i == BaseChatMesh_dispatchPeer(contacts, pkt.sender)
       IN IF i = 0
            THEN ChatCommit("peer", pkt, 0, ChatState)
            ELSE ChatCommit("peer", pkt, i,
                   BaseChatMesh_onPeerDataRecv(ChatState, i,
                                               contacts[i].shared_secret, pkt))

ChatRecvPeerPath(packets) ==
  /\ InChatLoop
  /\ \E pkt \in packets :
       LET i == BaseChatMesh_dispatchPeer(contacts, pkt.sender)
       IN IF i = 0
            THEN ChatCommit("path", pkt, 0, ChatState)
            ELSE LET st == BaseChatMesh_onPeerPathRecv(ChatState, i, pkt.path,
                                                       pkt.extra_type, pkt.extra)
                 IN \E table \in memcpyOutcomes(st.contacts, i, pkt.path) :
                      ChatCommit("path", pkt, i, [st EXCEPT !.contacts = table])

ChatRecvAck(acks) ==
  /\ InChatLoop
  /\ \E ack \in acks :
       ChatCommit("ack", [ack |-> ack], 0, BaseChatMesh_onAckRecv(ChatState, ack))

ChatRecvGroup(packets) ==
  /\ InChatLoop
  /\ \E pkt \in packets :
       ChatCommit("group", pkt, 0, BaseChatMesh_onGroupDataRecv(ChatState, pkt))

\* the application sends a text message to one of its contacts
ChatSendMessage(attempts, texts) ==
  /\ InChatLoop
  /\ \E r \in 1..Len(contacts), attempt \in attempts, text \in texts :
       ChatCommit("send", [text |-> text, attempt |-> attempt], r,
                  sendMessage(ChatState, r, attempt, text))

\* the application adds a contact
ChatAddContact(new_contacts) ==
  /\ InChatLoop
  /\ \E contact \in new_contacts :
       ChatCommit("add", contact, 0, addContact(ChatState, contact))

\* the application resets the path to one of its contacts
ChatResetPath ==
  /\ InChatLoop
  /\ \E r \in 1..Len(contacts) :
       ChatCommit("reset", <<>>, r, resetPathTo(ChatState, r))

\* one iteration of BaseChatMesh::loop() in which no packet arrives
ChatLoop ==
  /\ InChatLoop
  /\ ChatCommit("loop", <<>>, 0, BaseChatMesh_loop(ChatState))

\* the step has returned to the caller; its record is cleared
ChatReturn ==
  /\ ~InChatLoop
  /\ chat_ev' = NoChatEvent
  /\ chat_sent' = <<>>
  /\ UNCHANGED <<contacts, txt_send_timeout, expected_ack, millis, chat_pool_free, hist>>
  /\ UNCHANGED nonChatVars

\* a millisecond passes
ChatTick ==
  /\ InChatLoop
  /\ millis < MaxMillis
  /\ millis' = millis + 1
  /\ UNCHANGED <<contacts, txt_send_timeout, expected_ack, chat_pool_free,
                 chat_sent, chat_ev, hist>>
  /\ UNCHANGED nonChatVars

\* Mesh::loop() transmits a queued packet and returns it to the pool
ChatTransmit ==
  /\ InChatLoop
  /\ chat_pool_free < PoolSize
  /\ chat_pool_free' = chat_pool_free + 1
  /\ UNCHANGED <<contacts, txt_send_timeout, expected_ack, millis,
                 chat_sent, chat_ev, hist>>
  /\ UNCHANGED nonChatVars

(***************************************************************************)
(* Inputs of the chat node                                                 *)
(***************************************************************************)
GoodAppData == [type |-> 1, name |-> "peer", valid |-> TRUE, has_name |-> TRUE]
NoNameAppData == [type |-> 1, name |-> "", valid |-> TRUE, has_name |-> FALSE]
InvalidAppData == [type |-> 1, name |-> "peer", valid |-> FALSE, has_name |-> TRUE]
OtherAppData == [type |-> 2, name |-> "node", valid |-> TRUE, has_name |-> TRUE]

AdvertPackets(ids, tss, datas) ==
  {[id |-> id, timestamp |-> ts, type |-> "ADVERT", app_data |-> d] :
     id \in ids, ts \in tss, d \in datas}

T_hi == <<"h", "i">>
T_hey == <<"h", "e", "y">>

GroupPackets ==
  {[flood |-> r.flood, path |-> r.path, timestamp |-> 1, flags |-> 0,
    text |-> T_hi, type |-> "GRP_TXT"] : r \in Routes}

\* the ACKs that may arrive: the one waited for, the one that cancelled the
\* wait before, and one for a message this node never sent
BogusAck == AckHash(0, 0, T_hi, REPEATER_ID)
AckCandidates == ({expected_ack, hist.cancelled} \ {NoAck}) \cup {BogusAck}

ChatPathPackets(ids, paths) ==
  {[path |-> p, type |-> "PATH", extra_type |-> x.type, extra |-> x.data,
    sender |-> id] :
     id \in ids, p \in paths,
     x \in {[type |-> "NONE", data |-> <<>>], [type |-> "RESPONSE", data |-> <<"OK">>]}
           \cup {[type |-> "ACK", data |-> a] : a \in AckCandidates}}

(***************************************************************************)
(* Specification of the repeater: logins, requests and CLI text messages   *)
(* from two peers                                                          *)
(***************************************************************************)
RepTexts == {T_ver, T_clock_sync, <<>>}
\* the flags of a retry: attempt & 3 of the attempts 1 and 3
RetryFlags == {1 % 4, 3 % 4}

RepAnonPackets == AnonPackets(Identities, SmallTimestamps, Passwords)
RepPeerPackets ==
  ReqPackets(Identities, SmallTimestamps)
    \cup TxtPackets(Identities, SmallTimestamps, {0}, RepTexts)
    \cup TxtPackets(Identities, SmallTimestamps, RetryFlags, {T_ver})
RepPathPackets == PathPackets(Identities)

RepNext ==
  \/ RecvAnonReq(RepAnonPackets)
  \/ RecvPeerData(RepPeerPackets)
  \/ RecvPeerPath(RepPathPackets)
  \/ ReturnToLoop
  \/ Tick
  \/ Transmit
  \/ ForwardFlood

\* the repeater after setup(); the chat node and the line are idle
Init == RepInit /\ ChatInit /\ LineIdle

SpecRepeater == Init /\ [][RepNext]_vars

(***************************************************************************)
(* Specification of the repeater's CLI: one peer, every command, and        *)
(* sender timestamps up to UINT32_MAX                                      *)
(***************************************************************************)
CliTexts == {T_reboot, T_advert, T_clock_sync, T_sp_clock_sync, T_clock,
             T_set_AF_2, T_set_xx, T_ver, T_unknown}

\* with UINT32_MAX - 1, "clock sync" can set the RTC to UINT32_MAX
CliTimestamps == Timestamps \cup {UINT32_MAX - 1}
CliAnonPackets == AnonPackets({1}, CliTimestamps, {ADMIN_PASSWORD})
CliTxtPackets == TxtPackets({1}, CliTimestamps, {0}, CliTexts)

CliNext ==
  \/ RecvAnonReq(CliAnonPackets)
  \/ RecvPeerData(CliTxtPackets)
  \/ SerialCommand(CliTexts)
  \/ ReturnToLoop
  \/ Tick
  \/ Transmit
  \/ ForwardFlood

SpecCli == Init /\ [][CliNext]_vars

(***************************************************************************)
(* Specification of the chat node: the ACK wait of sendMessage             *)
(***************************************************************************)
ChatAdvertPackets == AdvertPackets({1}, {1}, {GoodAppData, NoNameAppData})
ChatTxtPackets == TxtPackets(Identities, {1, 2}, {0, 4}, {T_hi})
ChatAttempts == {0, 1}
ChatTexts == {T_hi, T_hey}

ChatNext ==
  \/ ChatRecvAdvert(ChatAdvertPackets)
  \/ ChatRecvPeerData(ChatTxtPackets)
  \/ ChatRecvPeerPath(ChatPathPackets(Identities, {<<9>>}))
  \/ ChatRecvAck(AckCandidates)
  \/ ChatRecvGroup(GroupPackets)
  \/ ChatSendMessage(ChatAttempts, ChatTexts)
  \/ ChatResetPath
  \/ ChatLoop
  \/ ChatReturn
  \/ ChatTick
  \/ ChatTransmit

\* the chat node after construction, next to a repeater whose clock is 0
ChatNodeInit == RepInit /\ rtc = 0 /\ ChatInit /\ LineIdle

SpecChat == ChatNodeInit /\ [][ChatNext]_vars

(***************************************************************************)
(* Specification of the ACK wait under a fair scheduler: the main loop     *)
(* calls loop() again and again, the millisecond clock advances and every  *)
(* handler returns. The clock is cut at MaxMillis, so messages are sent    *)
(* only while their timeout can still pass before the cut.                 *)
(***************************************************************************)
CanStillTimeOut ==
  futureMillis(ChatState, calcFloodTimeoutMillisFor(1)) < MaxMillis

AckWaitSend ==
  /\ CanStillTimeOut
  /\ ChatSendMessage(ChatAttempts, ChatTexts)

AckWaitNext ==
  \/ ChatRecvAdvert(ChatAdvertPackets)
  \/ AckWaitSend
  \/ ChatRecvAck(AckCandidates)
  \/ ChatLoop
  \/ ChatReturn
  \/ ChatTick
  \/ ChatTransmit

\* loop() runs in every iteration of the main loop, so it and the clock are
\* taken again and again although handlers run in between
AckWaitFairness ==
  /\ SF_vars(ChatLoop)
  /\ SF_vars(ChatTick)
  /\ WF_vars(ChatReturn)

SpecAckWait == ChatNodeInit /\ [][AckWaitNext]_vars /\ AckWaitFairness

(***************************************************************************)
(* Specification of the chat node's path learning: two contacts, two        *)
(* paths, path-returns, sendMessage and resetPathTo                        *)
(***************************************************************************)
BothAdvertPackets == AdvertPackets(Identities, {1}, {GoodAppData})
FirstAttempt == {0}

ChatPathNext ==
  \/ ChatRecvAdvert(BothAdvertPackets)
  \/ ChatRecvPeerPath(ChatPathPackets(Identities, {<<9>>, <<8, 9>>}))
  \/ ChatSendMessage(FirstAttempt, ChatTexts)
  \/ ChatResetPath
  \/ ChatReturn
  \/ ChatTransmit

SpecChatPath == ChatNodeInit /\ [][ChatPathNext]_vars

(***************************************************************************)
(* Line topology  S - R1 - R2 - D : the chat node S, two forwarding        *)
(* repeaters R1 and R2, and the repeater D. Every frame a node transmits   *)
(* is heard by its neighbours on the line.                                 *)
(***************************************************************************)
R1_ID == 8
R2_ID == 9
LineNodes == <<CHAT_ID, R1_ID, R2_ID, REPEATER_ID>>
LinePos == 1..Len(LineNodes)
PosOf(id) == CHOOSE p \in LinePos : LineNodes[p] = id
Neighbours(p) == {q \in LinePos : q = p - 1 \/ q = p + 1}
\* the path from S to D, as hop hashes
LinePath == <<hash_id(R1_ID), hash_id(R2_ID)>>

\* a frame on the air: the packet type, then receiver, origin, packet, route
\* and path
Frame(to, src, pkt, route, path) ==
  <<pkt.ptype, [path |-> path, pkt |-> pkt, route |-> route, to |-> to, src |-> src]>>
\* the packet hash used for duplicate suppression: it does not cover the path
PacketHash(f) == <<f[1], [pkt |-> f[2].pkt, src |-> f[2].src]>>

Radiate(p, src, pkt, route, path) ==
  {Frame(n, src, pkt, route, path) : n \in Neighbours(p)}
\* the frames of the packets that node p queued, and their hashes
Emit(p, queued) ==
  UNION {Radiate(p, LineNodes[p], queued[k].pkt, queued[k].route, queued[k].path) :
           k \in DOMAIN queued}
OwnHashes(p, queued) ==
  {<<queued[k].pkt.ptype, [pkt |-> queued[k].pkt, src |-> LineNodes[p]]>> :
     k \in DOMAIN queued}

\* routing of a packet that is not for this node: a flooded packet is
\* retransmitted with the node's hash appended to the path, a direct packet
\* only by the node whose hash is next in the path, which it strips
ForwardedFrames(p, f) ==
  IF f[2].route = "flood"
    THEN IF allowPacketForward /\ Len(f[2].path) < MAX_PATH_SIZE
      THEN Radiate(p, f[2].src, f[2].pkt, "flood",
                   Append(f[2].path, hash_id(LineNodes[p])))
      ELSE {}
    ELSE IF f[2].path # <<>> /\ f[2].path[1] = hash_id(LineNodes[p])
      THEN Radiate(p, f[2].src, f[2].pkt, "direct", Tail(f[2].path))
      ELSE {}

\* the frame has reached the node its packet is for (an ACK names no node)
AddressedTo(p, f) ==
  /\ f[2].to = p
  /\ f[2].route = "flood" \/ f[2].path = <<>>
  /\ \/ f[2].pkt.dest = LineNodes[p]
     \/ f[1] = "ACK" /\ p = PosOf(CHAT_ID)

\* the payloads as the dispatcher hands them to the handlers
DecodeAnon(r) ==
  [flood |-> r.route = "flood", path |-> r.path,
   timestamp |-> r.pkt.body.data.timestamp, type |-> "ANON_REQ",
   password |-> r.pkt.body.data.password, sender |-> r.src]
DecodeTxt(r) ==
  [flood |-> r.route = "flood", path |-> r.path, timestamp |-> r.pkt.body.data.timestamp,
   flags |-> r.pkt.body.data.flags, text |-> r.pkt.body.data.text,
   type |-> "TXT_MSG", sender |-> r.src]
DecodePath(r) ==
  [flood |-> r.route = "flood", path |-> r.pkt.body.path, type |-> "PATH",
   extra_type |-> r.pkt.body.extra_type, extra |-> r.pkt.body.extra,
   sender |-> r.src]
DecodeResponse(r) ==
  [flood |-> r.route = "flood", path |-> r.path, type |-> "RESPONSE",
   data |-> r.pkt.body.data, sender |-> r.src]

\* the application of S logs in to the contact at index r: an ANON_REQ with
\* S's time and the password, by flood while out_path is unknown
sendLogin(st, r, password) ==
  LET recipient == st.contacts[r]
      pkt == createDatagram("ANON_REQ", recipient.id, recipient.shared_secret,
                            [timestamp |-> ChatRtc(st), password |-> password])
  IN IF ~HasFreePacket(st) THEN st
     ELSE IF recipient.out_path_len < 0
       THEN sendFlood(st, pkt, 0)
       ELSE sendDirect(st, pkt, recipient.out_path, 0)

\* a PATH packet at S: onPeerPathRecv, and because it returns true for a
\* flooded packet, the reciprocal path-return sent direct along the new path
Mesh_onRecvPath(st, i, r) ==
  LET in == DecodePath(r)
      st1 == BaseChatMesh_onPeerPathRecv(st, i, in.path, in.extra_type, in.extra)
  IN IF i # 0 /\ in.flood /\ HasFreePacket(st1)
       THEN sendDirect(st1, createPathReturn(r.src, st.contacts[i].shared_secret,
                                             r.path, "NONE", <<>>),
                       in.path, 0)
       ELSE st1

\* D is in the contact table of S, added with addContact; nothing is on the air
LineInit ==
  /\ RepInit
  /\ rtc = 0
  /\ contacts = addContact([contacts |-> <<>>, rc |-> -1],
                           [NewContact(REPEATER_ID) EXCEPT !.name = "D"]).contacts
  /\ txt_send_timeout = 0
  /\ expected_ack = NoAck
  /\ millis = 0
  /\ chat_pool_free = PoolSize
  /\ chat_sent = <<>>
  /\ chat_ev = NoChatEvent
  /\ hist = [cancelled |-> NoAck, fired |-> 0, learned |-> <<NoPath>>,
             received |-> <<>>, forwarded |-> <<>>, handled |-> <<>>]
  /\ net = {}
  /\ seen = [p \in LinePos |-> {}]

\* Mesh::loop() after the handler: the queued packets are transmitted and
\* go back to the pool
Transmitted(st, free) == [st EXCEPT !.pool_free = free]

\* what node p puts on the air and remembers after handling frame f
LineTransmit(p, f, queued) ==
  /\ net' = (net \ {f}) \cup Emit(p, queued)
  /\ seen' = [seen EXCEPT ![p] = @ \cup {PacketHash(f)} \cup OwnHashes(p, queued)]

\* a node hears a frame it has seen before, or one that is not for it: a
\* duplicate is dropped, a new packet is forwarded by the repeaters
LineRelay ==
  \E f \in net :
    LET p == f[2].to
    IN /\ PacketHash(f) \in seen[p] \/ ~AddressedTo(p, f)
       /\ IF PacketHash(f) \in seen[p]
            THEN net' = net \ {f} /\ seen' = seen
            ELSE /\ net' = (net \ {f}) \cup
                           (IF p = PosOf(CHAT_ID) THEN {} ELSE ForwardedFrames(p, f))
                 /\ seen' = [seen EXCEPT ![p] = @ \cup {PacketHash(f)}]
       /\ UNCHANGED <<repVars, chatVars>>

\* D receives a packet that is for it
LineRecvD ==
  /\ \E f \in net :
       LET p == PosOf(REPEATER_ID)
           r == f[2]
           i == MyMesh_dispatchPeer(known_clients, r.src)
       IN /\ AddressedTo(p, f)
          /\ PacketHash(f) \notin seen[p]
          /\ f[1] \in {"ANON_REQ", "TXT_MSG", "PATH"}
          /\ LET st == IF f[1] = "ANON_REQ"
                         THEN MyMesh_onAnonDataRecv(RepState, DecodeAnon(r))
                       ELSE IF f[1] = "PATH"
                         THEN MyMesh_onPeerPathRecv(RepState, i, r.pkt.body.path)
                       ELSE IF i = 0 THEN RepState
                       ELSE MyMesh_onPeerDataRecv(RepState, i, known_clients[i].secret,
                                                  DecodeTxt(r))
                 in == IF f[1] = "ANON_REQ" THEN DecodeAnon(r)
                       ELSE IF f[1] = "PATH" THEN DecodePath(r)
                       ELSE DecodeTxt(r)
                 op == IF f[1] = "ANON_REQ" THEN "anon"
                       ELSE IF f[1] = "PATH" THEN "path" ELSE "peer"
             IN /\ RepApply(op, in, i, Transmitted(st, pool_free))
                /\ LineTransmit(p, f, AfterHandler(st).sent)
  /\ UNCHANGED chatVars

\* S receives a packet that is for it
LineRecvS ==
  /\ \E f \in net :
       LET p == PosOf(CHAT_ID)
           r == f[2]
           i == BaseChatMesh_dispatchPeer(contacts, r.src)
       IN /\ AddressedTo(p, f)
          /\ PacketHash(f) \notin seen[p]
          /\ f[1] \in {"PATH", "ACK", "TXT_MSG", "RESPONSE"}
          /\ LET st == IF f[1] = "ACK"
                         THEN BaseChatMesh_onAckRecv(ChatState, r.pkt.body)
                       ELSE IF i = 0 THEN ChatState
                       ELSE IF f[1] = "PATH" THEN Mesh_onRecvPath(ChatState, i, r)
                       ELSE IF f[1] = "TXT_MSG"
                         THEN BaseChatMesh_onPeerDataRecv(ChatState, i,
                                contacts[i].shared_secret, DecodeTxt(r))
                       ELSE BaseChatMesh_onPeerDataRecv(ChatState, i,
                                contacts[i].shared_secret, DecodeResponse(r))
                 in == IF f[1] = "ACK" THEN [ack |-> r.pkt.body]
                       ELSE IF f[1] = "PATH" THEN DecodePath(r)
                       ELSE IF f[1] = "TXT_MSG" THEN DecodeTxt(r)
                       ELSE DecodeResponse(r)
                 op == IF f[1] = "ACK" THEN "ack"
                       ELSE IF f[1] = "PATH" THEN "path" ELSE "peer"
             IN /\ ChatApply(op, in, IF f[1] = "ACK" THEN 0 ELSE i,
                             Transmitted(st, chat_pool_free))
                /\ LineTransmit(p, f, st.sent)
  /\ UNCHANGED repVars

\* the application of S logs in to D, once the air is quiet
LineLogin(passwords) ==
  /\ net = {}
  /\ \E pw \in passwords :
       LET st == sendLogin(ChatState, 1, pw)
       IN /\ ChatApply("login", [password |-> pw], 1, Transmitted(st, chat_pool_free))
          /\ net' = net \cup Emit(PosOf(CHAT_ID), st.sent)
          /\ seen' = [seen EXCEPT ![PosOf(CHAT_ID)] =
                        @ \cup OwnHashes(PosOf(CHAT_ID), st.sent)]
  /\ UNCHANGED repVars

\* the application of S sends a text message to D, once the air is quiet
LineSendMessage(texts) ==
  /\ net = {}
  /\ \E text \in texts :
       LET st == sendMessage(ChatState, 1, 0, text)
       IN /\ ChatApply("send", [text |-> text, attempt |-> 0], 1,
                       Transmitted(st, chat_pool_free))
          /\ net' = net \cup Emit(PosOf(CHAT_ID), st.sent)
          /\ seen' = [seen EXCEPT ![PosOf(CHAT_ID)] =
                        @ \cup OwnHashes(PosOf(CHAT_ID), st.sent)]
  /\ UNCHANGED repVars

\* a millisecond passes while the air is quiet
LineTick ==
  /\ net = {}
  /\ ChatTick

LinePasswords == {ADMIN_PASSWORD, WrongPassword}
LineTexts == {T_hi}

LineNext ==
  \/ LineLogin(LinePasswords)
  \/ LineSendMessage(LineTexts)
  \/ LineRelay
  \/ LineRecvD
  \/ LineRecvS
  \/ LineTick

SpecLine == LineInit /\ [][LineNext]_vars

(***************************************************************************)
(* Specification of a flood in a line of three repeaters R1 - R2 - D: each *)
(* of them floods its advertisement once, at any time, and the frames on   *)
(* the air are received in any order.  hist.forwarded[p][o] counts how     *)
(* often node p has retransmitted the packet of origin o, hist.handled     *)
(* how often it has handled it.                                            *)
(***************************************************************************)
FloodNodes == <<R1_ID, R2_ID, REPEATER_ID>>
FloodPos == 1..Len(FloodNodes)
FloodNeighbours(p) == {q \in FloodPos : q = p - 1 \/ q = p + 1}
NoFloods == [p \in FloodPos |-> [o \in FloodPos |-> 0]]

\* the advertisement that node p floods, as sendSelfAdvertisement builds it
FloodPacket(p) == createAdvert(FloodNodes[p], "repeater")
FloodHash(p) == <<"ADVERT", [pkt |-> FloodPacket(p), src |-> FloodNodes[p]]>>
\* the node that flooded the packet of frame f
FloodOrigin(f) == CHOOSE o \in FloodPos : FloodNodes[o] = f[2].src

FloodRadiate(p, src, pkt, path) ==
  {Frame(n, src, pkt, "flood", path) : n \in FloodNeighbours(p)}
\* a flooded packet is retransmitted with the node's hash appended to the path
FloodForwarded(p, f) ==
  IF allowPacketForward /\ Len(f[2].path) < MAX_PATH_SIZE
    THEN FloodRadiate(p, f[2].src, f[2].pkt, Append(f[2].path, hash_id(FloodNodes[p])))
    ELSE {}

FloodInit ==
  /\ rtc = 0
  /\ known_clients = BootState(rtc).known_clients
  /\ pool_free = BootState(rtc).pool_free
  /\ airtime_factor = BootState(rtc).airtime_factor
  /\ sent = BootState(rtc).sent
  /\ ev = [NoEvent EXCEPT !.op = "boot"]
  /\ contacts = <<>>
  /\ txt_send_timeout = 0
  /\ expected_ack = NoAck
  /\ millis = 0
  /\ chat_pool_free = PoolSize
  /\ chat_sent = <<>>
  /\ chat_ev = NoChatEvent
  /\ hist = [cancelled |-> NoAck, fired |-> 0, learned |-> <<>>,
             received |-> <<>>, forwarded |-> NoFloods, handled |-> NoFloods]
  /\ net = {}
  /\ seen = [p \in FloodPos |-> {}]

\* node p floods its advertisement: the packet is marked as seen and sent
FloodSend ==
  \E p \in FloodPos :
    /\ FloodHash(p) \notin seen[p]
    /\ net' = net \cup FloodRadiate(p, FloodNodes[p], FloodPacket(p), <<>>)
    /\ seen' = [seen EXCEPT ![p] = @ \cup {FloodHash(p)}]
    /\ UNCHANGED <<repVars, contacts, txt_send_timeout, expected_ack, millis,
                   chat_pool_free, chat_sent, chat_ev, hist>>

\* a node receives the first copy of a packet: it marks the packet as seen,
\* handles it and queues it for retransmission
FloodFirstCopy ==
  \E f \in net :
    LET p == f[2].to
        o == FloodOrigin(f)
        out == FloodForwarded(p, f)
    IN /\ PacketHash(f) \notin seen[p]
       /\ net' = (net \ {f}) \cup out
       /\ seen' = [seen EXCEPT ![p] = @ \cup {PacketHash(f)}]
       /\ hist' = [hist EXCEPT !.handled[p][o] = @ + 1,
                               !.forwarded[p][o] = IF out = {} THEN @ ELSE @ + 1]
       /\ UNCHANGED <<repVars, contacts, txt_send_timeout, expected_ack, millis,
                      chat_pool_free, chat_sent, chat_ev>>

\* a node receives a later copy of a packet it has seen: the copy is dropped
FloodLaterCopy ==
  \E f \in net :
    /\ PacketHash(f) \in seen[f[2].to]
    /\ net' = net \ {f}
    /\ UNCHANGED <<repVars, chatVars, seen>>

FloodNext ==
  \/ FloodSend
  \/ FloodFirstCopy
  \/ FloodLaterCopy

SpecFlood == FloodInit /\ [][FloodNext]_vars

(***************************************************************************)
(* Specification of the two peer tables: more identities than either table *)
(* holds, adverts with every kind of app_data, addContact, and path-returns *)
(* with a path of MAX_PATH_SIZE hops and of one hop more.  The chat node    *)
(* and the repeater are different devices: a behaviour follows one of them *)
(* while the other stays as it was constructed.                            *)
(***************************************************************************)
FullPath == [k \in 1..MAX_PATH_SIZE |-> 9]
LongPath == [k \in 1..(MAX_PATH_SIZE + 1) |-> 9]

TableIdentities == {1, 2, 4}
TableAdvertPackets ==
  AdvertPackets(TableIdentities, {1, 2},
                {GoodAppData, OtherAppData, NoNameAppData, InvalidAppData})
TableNewContacts ==
  {[NewContact(4) EXCEPT !.name = "peer", !.last_advert_timestamp = 1]}
TableChatPathPackets ==
  {[path |-> p, type |-> "PATH", extra_type |-> "NONE", extra |-> <<>>,
    sender |-> 1] : p \in {FullPath, LongPath}}

ClientIdentities == {1, 2, 4, 5, 6}
TableAnonPackets == AnonPackets(ClientIdentities, {1}, {ADMIN_PASSWORD})
TablePathPackets == PathPacketsWith({1}, {FullPath, LongPath})

\* the repeater has not left setup()
RepAtBoot == ev.op = "boot"

TablesNext ==
  \/ RepAtBoot /\ ChatRecvAdvert(TableAdvertPackets)
  \/ RepAtBoot /\ ChatAddContact(TableNewContacts)
  \/ RepAtBoot /\ ChatRecvPeerPath(TableChatPathPackets)
  \/ RepAtBoot /\ ChatResetPath
  \/ RepAtBoot /\ ChatReturn
  \/ ChatInit /\ RecvAnonReq(TableAnonPackets)
  \/ ChatInit /\ RecvPeerPath(TablePathPackets)
  \/ ChatInit /\ ReturnToLoop
  \/ ChatInit /\ Transmit

SpecTables == ChatNodeInit /\ [][TablesNext]_vars

(***************************************************************************)
(* Specification of searchPeersByHash: the function is applied to every    *)
(* table of up to MAX_SEARCH_RESULTS + 1 contacts (a build whose           *)
(* MAX_CONTACTS is larger than MAX_SEARCH_RESULTS; the table may hold an   *)
(* identity more than once, as addContact does not look for it), and to    *)
(* every client table putClient can build.  The dispatcher then tries the  *)
(* candidates for a packet of the given sender.                            *)
(***************************************************************************)
SearchTableLen == MAX_SEARCH_RESULTS + 1
SearchIdentities == {1, 2, 4}

ContactTables ==
  UNION {[1..n -> {NewContact(id) : id \in SearchIdentities}] : n \in 0..SearchTableLen}
\* putClient keeps the identities of the client table distinct
ClientTables ==
  {t \in UNION {[1..n -> {NewClient(id) : id \in SearchIdentities}] :
                  n \in 0..Cardinality(SearchIdentities)} :
     \A i, j \in 1..Len(t) : t[i].id = t[j].id => i = j}

SearchInit ==
  /\ rtc = 0
  /\ pool_free = BootState(rtc).pool_free
  /\ airtime_factor = BootState(rtc).airtime_factor
  /\ sent = BootState(rtc).sent
  /\ ev = [NoEvent EXCEPT !.op = "boot"]
  /\ txt_send_timeout = 0
  /\ expected_ack = NoAck
  /\ millis = 0
  /\ chat_pool_free = PoolSize
  /\ chat_sent = <<>>
  /\ chat_ev = NoChatEvent
  /\ hist = [cancelled |-> NoAck, fired |-> 0, learned |-> <<>>,
             received |-> <<>>, forwarded |-> <<>>, handled |-> <<>>]
  /\ net = {}
  /\ seen = <<>>
  /\ \/ contacts \in ContactTables /\ known_clients = <<>>
     \/ contacts = <<>> /\ known_clients \in ClientTables

\* the dispatcher of the chat node looks up the candidates for a packet
ChatSearchPeers(senders) ==
  /\ InChatLoop
  /\ \E sender \in senders :
       ChatCommit("search",
                  [sender |-> sender,
                   matching_peer_indexes |->
                     BaseChatMesh_searchPeersByHash(contacts, hash_id(sender))],
                  BaseChatMesh_dispatchPeer(contacts, sender), ChatState)

\* the dispatcher of the repeater looks up the candidates for a packet
RepSearchPeers(senders) ==
  /\ InLoop
  /\ \E sender \in senders :
       RepCommit("search",
                 [sender |-> sender,
                  matching_peer_indexes |->
                    MyMesh_searchPeersByHash(known_clients, hash_id(sender))],
                 MyMesh_dispatchPeer(known_clients, sender), RepState)

\* the chat node has not been used
ChatIdle == contacts = <<>> /\ chat_ev = NoChatEvent

SearchNext ==
  \/ RepAtBoot /\ ChatSearchPeers(SearchIdentities)
  \/ RepAtBoot /\ ChatReturn
  \/ ChatIdle /\ RepSearchPeers(SearchIdentities)
  \/ ChatIdle /\ ReturnToLoop

SpecSearch == SearchInit /\ [][SearchNext]_vars

(***************************************************************************)
(* Properties of the repeater                                              *)
(***************************************************************************)
\* the last step was onPeerDataRecv, called for the known client ev.idx
PeerHandled == ev.op = "peer" /\ ev.idx # 0
\* that client's last_timestamp before the step
PreLastTimestamp == ev.pre.known_clients[ev.idx].last_timestamp
RepUnchanged ==
  /\ known_clients = ev.pre.known_clients
  /\ rtc = ev.pre.rtc
  /\ pool_free = ev.pre.pool_free
  /\ airtime_factor = ev.pre.airtime_factor

\* C1: a REQ or TXT_MSG from a known client whose timestamp is <= the
\* client's last_timestamp T is dropped: nothing is queued (no ACK, no
\* reply), no packet is taken from the pool, no command is executed and the
\* client table (so last_timestamp = T) is unchanged.
C1_ReplayDropped ==
  (/\ PeerHandled
   /\ ev.pkt.type \in {"REQ", "TXT_MSG"}
   /\ ev.pkt.timestamp <= PreLastTimestamp)
  => (/\ sent = <<>>
      /\ ~ev.executed
      /\ ~ev.rebooted
      /\ RepUnchanged
      /\ known_clients[ev.idx].last_timestamp = PreLastTimestamp)

\* a CLI text with exactly the timestamp of an earlier accepted message has
\* been received and handled
C1_Witness ==
  /\ PeerHandled
  /\ ev.pkt.type = "TXT_MSG"
  /\ ev.pkt.flags = 0
  /\ ev.pkt.text = T_clock_sync
  /\ PreLastTimestamp >= 1
  /\ ev.pkt.timestamp = PreLastTimestamp
  /\ sent = <<>>

\* the timestamps of all clients, by identity
LastTimestamps(clients) ==
  {<<clients[i].id, clients[i].last_timestamp>> : i \in 1..Len(clients)}

\* C2 (as claimed): an ANON_REQ whose password field is not the admin
\* password produces no reply, inserts no client and changes no
\* last_timestamp.
C2_WrongPasswordRejected ==
  (ev.op = "anon" /\ ev.pkt.password # ADMIN_PASSWORD)
  => (/\ sent = <<>>
      /\ Len(known_clients) = Len(ev.pre.known_clients)
      /\ LastTimestamps(known_clients) = LastTimestamps(ev.pre.known_clients))

\* the sender's entry in the table before / after an ANON_REQ
AnonPreIdx == ClientIndex(ev.pre.known_clients, ev.pkt.sender)
AnonPostIdx == ClientIndex(known_clients, ev.pkt.sender)
AnonStoredTimestamp ==
  IF AnonPreIdx # 0 THEN ev.pre.known_clients[AnonPreIdx].last_timestamp ELSE 0
\* a login that must succeed: correct password, newer timestamp, and the
\* table has room or already holds the sender
AnonLoginCase ==
  /\ ev.op = "anon"
  /\ ev.pkt.password = ADMIN_PASSWORD
  /\ ev.pkt.timestamp > AnonStoredTimestamp
  /\ (Len(ev.pre.known_clients) < MAX_CLIENTS \/ AnonPreIdx # 0)
AnonClientUpdated ==
  /\ AnonPostIdx # 0
  /\ known_clients[AnonPostIdx].secret = {REPEATER_ID, ev.pkt.sender}
  /\ known_clients[AnonPostIdx].last_timestamp = ev.pkt.timestamp
\* exactly one "OK" RESPONSE, routed as the claim says
AnonOneOkResponse ==
  /\ Len(sent) = 1
  /\ sent[1].delay = 0
  /\ sent[1].pkt.dest = ev.pkt.sender
  /\ IF ev.pkt.flood
       THEN /\ sent[1].pkt.ptype = "PATH"
            /\ sent[1].route = "flood"
            /\ sent[1].pkt.body.path = ev.pkt.path
            /\ sent[1].pkt.body.extra_type = "RESPONSE"
            /\ sent[1].pkt.body.extra = <<ev.pre.rtc, "OK">>
       ELSE /\ sent[1].pkt.ptype = "RESPONSE"
            /\ sent[1].pkt.body.data = <<ev.pre.rtc, "OK">>
            /\ IF known_clients[AnonPostIdx].out_path_len >= 0
                 THEN /\ sent[1].route = "direct"
                      /\ sent[1].path = known_clients[AnonPostIdx].out_path
                 ELSE sent[1].route = "flood"

\* C3 (as claimed): a successful login leaves the sender in the table with
\* its secret and the request's timestamp, and sends exactly one "OK"
\* RESPONSE.
C3_LoginRepliesOnce ==
  AnonLoginCase => (AnonClientUpdated /\ AnonOneOkResponse)

\* C3 (amended): as claimed while the packet pool has a free packet; with
\* the pool exhausted the table is updated all the same and nothing is sent.
C3_LoginRepliesOnceIfPacketFree ==
  AnonLoginCase =>
    /\ AnonClientUpdated
    /\ IF ev.pre.pool_free > 0 THEN AnonOneOkResponse ELSE sent = <<>>

\* a direct login from a client whose out_path is known has been answered
C3_Witness ==
  /\ AnonLoginCase
  /\ ~ev.pkt.flood
  /\ AnonPreIdx # 0
  /\ ev.pre.known_clients[AnonPreIdx].out_path_len >= 0
  /\ Len(sent) = 1
  /\ sent[1].route = "direct"

\* the last step executed "clock sync" with this sender timestamp
ClockSyncExecuted ==
  /\ ev.op \in {"peer", "serial"}
  /\ ev.executed
  /\ StartsWith(SkipSpaces(ev.pkt.text), T_clock_sync)
ClockSyncSender == IF ev.op = "serial" THEN 0 ELSE ev.pkt.timestamp

\* C4: "clock sync" with a sender timestamp strictly greater than the RTC
\* sets the RTC (to the sender timestamp + 1, modulo 2^32) and replies
\* "OK - clock set"; with an equal or lesser one it replies "ERR: clock
\* cannot go backwards" and leaves the RTC unchanged.
C4_ClockSync ==
  ClockSyncExecuted =>
    IF ClockSyncSender > ev.pre.rtc
      THEN /\ rtc = (ClockSyncSender + 1) % (UINT32_MAX + 1)
           /\ ev.reply = "OK - clock set"
      ELSE /\ rtc = ev.pre.rtc
           /\ ev.reply = "ERR: clock cannot go backwards"

\* a "clock sync" with a newer timestamp has set the RTC
C4_Witness ==
  /\ ClockSyncExecuted
  /\ ClockSyncSender > ev.pre.rtc
  /\ rtc # ev.pre.rtc
  /\ ev.reply = "OK - clock set"

(***************************************************************************)
(* Properties of the chat node                                             *)
(***************************************************************************)
ChatPreTimeout == chat_ev.pre.txt_send_timeout
ChatPreExpected == chat_ev.pre.expected_ack
ChatArmedBefore == ChatPreTimeout # 0

\* the step changed nothing of the node's state and queued nothing
ChatUnchanged ==
  /\ contacts = chat_ev.pre.contacts
  /\ txt_send_timeout = ChatPreTimeout
  /\ expected_ack = ChatPreExpected
  /\ chat_pool_free = chat_ev.pre.pool_free
  /\ chat_sent = <<>>
  /\ chat_ev.upcalls = <<>>
  /\ ~chat_ev.do_not_retransmit

\* C5: while the ACK wait that sendMessage armed is pending, an ACK packet
\* whose payload equals the expected_ack computed for the message sets
\* txt_send_timeout to 0 (and the timeout has not fired and cannot fire for
\* it: the timer stays 0 until the next sendMessage); a second ACK with the
\* same payload, received before any further sendMessage, changes no state.
C5_AckCancelsOnce ==
  /\ chat_ev.op = "ack" =>
       /\ (ChatArmedBefore /\ ChatPreExpected # NoAck
             /\ chat_ev.pkt.ack = ChatPreExpected)
            => /\ txt_send_timeout = 0
               /\ expected_ack = NoAck
               /\ chat_ev.upcalls = <<>>
               /\ chat_sent = <<>>
       /\ (chat_ev.pre.hist.cancelled # NoAck
             /\ chat_ev.pkt.ack = chat_ev.pre.hist.cancelled)
            => ChatUnchanged
  /\ chat_ev.op = "send" /\ chat_ev.rc # MSG_SEND_FAILED =>
       /\ txt_send_timeout # 0
       /\ expected_ack = AckHash(ChatRtc(chat_ev.pre), chat_ev.pkt.attempt % 4,
                                 chat_ev.pkt.text, CHAT_ID)
  /\ hist.cancelled # NoAck => txt_send_timeout = 0 /\ hist.fired = 0

\* a second identical ACK has arrived after the first one cancelled the wait
C5_Witness ==
  /\ chat_ev.op = "ack"
  /\ chat_ev.pre.hist.cancelled # NoAck
  /\ chat_ev.pkt.ack = chat_ev.pre.hist.cancelled
  /\ txt_send_timeout = 0

\* C6: a loop iteration that finds the armed timeout passed invokes
\* onSendTimeout once, sets txt_send_timeout to 0 and queues no packet; any
\* other loop iteration invokes nothing and leaves the timer alone; between
\* two arming sendMessage calls the timeout fires at most once, and once it
\* has fired the timer stays disarmed.
C6_TimeoutFiresOnce ==
  /\ chat_ev.op = "loop" =>
       IF ChatArmedBefore /\ chat_ev.pre.millis - ChatPreTimeout > 0
         THEN /\ chat_ev.upcalls = <<[call |-> "onSendTimeout"]>>
              /\ txt_send_timeout = 0
              /\ chat_sent = <<>>
              /\ chat_pool_free = chat_ev.pre.pool_free
              /\ contacts = chat_ev.pre.contacts
         ELSE ChatUnchanged
  /\ hist.fired <= 1
  /\ hist.fired = 1 => txt_send_timeout = 0

\* a loop iteration after the timeout has fired, which invokes nothing
C6_Witness ==
  /\ chat_ev.op = "loop"
  /\ chat_ev.pre.hist.fired = 1
  /\ hist.fired = 1
  /\ chat_ev.upcalls = <<>>

ChatReceiveOps == {"advert", "peer", "path", "ack", "group"}

\* C7: a received packet changes an armed txt_send_timeout only by setting
\* it to 0, and only when the packet is an ACK, or a path-return from a
\* contact carrying an ACK, whose payload equals the expected ACK; every
\* other advert, text message, group message, ACK or path-return leaves the
\* armed timer with its value.
C7_OnlyMatchingAckCancels ==
  (chat_ev.op \in ChatReceiveOps /\ ChatArmedBefore) =>
    IF /\ ChatPreExpected # NoAck
       /\ \/ chat_ev.op = "ack" /\ chat_ev.pkt.ack = ChatPreExpected
          \/ /\ chat_ev.op = "path"
             /\ chat_ev.idx # 0
             /\ chat_ev.pkt.extra_type = "ACK"
             /\ chat_ev.pkt.extra = ChatPreExpected
      THEN txt_send_timeout = 0
      ELSE txt_send_timeout = ChatPreTimeout

\* a path-return from a contact carrying a non-matching ACK arrived while
\* the wait was armed, and the timer kept its value
C7_Witness ==
  /\ chat_ev.op = "path"
  /\ chat_ev.idx # 0
  /\ chat_ev.pkt.extra_type = "ACK"
  /\ ChatArmedBefore
  /\ chat_ev.pkt.extra # ChatPreExpected
  /\ txt_send_timeout = ChatPreTimeout

ChatRecipient == chat_ev.pre.contacts[chat_ev.idx]
ChatCannotCompose ==
  Len(chat_ev.pkt.text) > MAX_TEXT_LEN \/ chat_ev.pre.pool_free = 0

\* the one packet the step queued is the text message to the recipient
ChatSentMsg(route, path) ==
  /\ Len(chat_sent) = 1
  /\ chat_sent[1].route = route
  /\ chat_sent[1].path = path
  /\ chat_sent[1].pkt.ptype = "TXT_MSG"
  /\ chat_sent[1].pkt.dest = ChatRecipient.id
  /\ chat_sent[1].pkt.body.data.text = chat_ev.pkt.text
  /\ chat_pool_free = chat_ev.pre.pool_free - 1

\* C8: sendMessage returns MSG_SEND_FAILED exactly when the text is longer
\* than MAX_TEXT_LEN or no packet is free, and then queues nothing and leaves
\* txt_send_timeout alone; otherwise it returns MSG_SEND_SENT_DIRECT and
\* queues the message direct along out_path exactly when out_path_len >= 0,
\* and returns MSG_SEND_SENT_FLOOD and queues it by flood exactly when
\* out_path_len < 0.
C8_SendMessageRouting ==
  chat_ev.op = "send" =>
    /\ chat_ev.rc \in {MSG_SEND_FAILED, MSG_SEND_SENT_FLOOD, MSG_SEND_SENT_DIRECT}
    /\ (chat_ev.rc = MSG_SEND_FAILED) <=> ChatCannotCompose
    /\ (chat_ev.rc = MSG_SEND_SENT_DIRECT) <=>
         (~ChatCannotCompose /\ ChatRecipient.out_path_len >= 0)
    /\ (chat_ev.rc = MSG_SEND_SENT_FLOOD) <=>
         (~ChatCannotCompose /\ ChatRecipient.out_path_len < 0)
    /\ chat_ev.rc = MSG_SEND_SENT_DIRECT =>
         /\ ChatSentMsg("direct", ChatRecipient.out_path)
         /\ txt_send_timeout # 0
    /\ chat_ev.rc = MSG_SEND_SENT_FLOOD =>
         /\ ChatSentMsg("flood", <<>>)
         /\ txt_send_timeout # 0
    /\ chat_ev.rc = MSG_SEND_FAILED =>
         /\ chat_sent = <<>>
         /\ chat_pool_free = chat_ev.pre.pool_free
         /\ txt_send_timeout = ChatPreTimeout
         /\ contacts = chat_ev.pre.contacts

\* a sendMessage to a contact with a known out_path failed for lack of a
\* free packet while the timer was armed
C8_Witness ==
  /\ chat_ev.op = "send"
  /\ chat_ev.rc = MSG_SEND_FAILED
  /\ Len(chat_ev.pkt.text) <= MAX_TEXT_LEN
  /\ ChatRecipient.out_path_len >= 0
  /\ ChatArmedBefore

\* the path-return stored its path as the contact's out_path, and out_path
\* stays the last path-return's path until resetPathTo
PathLearned ==
  /\ chat_ev.op = "path" /\ chat_ev.idx # 0 =>
       /\ contacts[chat_ev.idx].out_path_len = Len(chat_ev.pkt.path)
       /\ contacts[chat_ev.idx].out_path = chat_ev.pkt.path
  /\ \A k \in 1..Len(contacts) :
       hist.learned[k].known =>
         /\ contacts[k].out_path_len = Len(hist.learned[k].path)
         /\ contacts[k].out_path = hist.learned[k].path

ChatLearnedBefore == chat_ev.pre.hist.learned[chat_ev.idx]

\* C9 as stated: after a path-return from a contact, every sendMessage to
\* that contact is sent direct along the received path, until another
\* path-return or resetPathTo.
C9_EverySendDirect ==
  /\ PathLearned
  /\ (chat_ev.op = "send" /\ ChatLearnedBefore.known) =>
       /\ chat_ev.rc = MSG_SEND_SENT_DIRECT
       /\ ChatSentMsg("direct", ChatLearnedBefore.path)

\* C9: after a path-return from a contact, the contact's out_path is the
\* received path until another path-return or resetPathTo; every sendMessage
\* to that contact that does not return MSG_SEND_FAILED is sent direct along
\* exactly that path, and one that returns MSG_SEND_FAILED sends nothing.
C9_EverySuccessfulSendDirect ==
  /\ PathLearned
  /\ (chat_ev.op = "send" /\ ChatLearnedBefore.known) =>
       IF chat_ev.rc = MSG_SEND_FAILED
         THEN chat_sent = <<>> /\ ChatCannotCompose
         ELSE /\ chat_ev.rc = MSG_SEND_SENT_DIRECT
              /\ ChatSentMsg("direct", ChatLearnedBefore.path)

\* a second path-return replaced a different out_path, other steps went by,
\* and the message was sent direct along the second path
C9_Witness ==
  /\ chat_ev.op = "send"
  /\ ChatLearnedBefore.known
  /\ ChatLearnedBefore.path = <<8, 9>>
  /\ ChatLearnedBefore.replaced
  /\ chat_ev.rc = MSG_SEND_SENT_DIRECT
  /\ chat_sent[1].path = <<8, 9>>
  /\ ChatArmedBefore

(***************************************************************************)
(* Properties of the line topology                                         *)
(***************************************************************************)
\* D answered the last login with one path-return that carries the path
\* the request was received with
LinePathReturned ==
  /\ Len(sent) = 1
  /\ sent[1].route = "flood"
  /\ sent[1].pkt.ptype = "PATH"
  /\ sent[1].pkt.dest = CHAT_ID
  /\ sent[1].pkt.body.path = LinePath
  /\ sent[1].pkt.body.extra_type = "RESPONSE"

AdvertOp == chat_ev.op = "advert"

\* index of the advert's identity in the table before the step, 0 for none
AdvertPreIdx == ContactIndex(chat_ev.pre.contacts, chat_ev.pkt.id)
AdvertAccepted == HasUpcall(chat_ev.upcalls, "onDiscoveredContact")

\* C11: an advert from an identity already in the contact table whose
\* timestamp is <= the contact's last_advert_timestamp is rejected: the table
\* (name, type and last_advert_timestamp of every contact) is unchanged and
\* onDiscoveredContact is not called; an advert accepted for a contact makes
\* its last_advert_timestamp the advert's timestamp, strictly greater than
\* the value it had, and no advert makes it smaller.
C11_AdvertReplayRejected ==
  (AdvertOp /\ AdvertPreIdx # 0) =>
    LET old == chat_ev.pre.contacts[AdvertPreIdx]
        new == contacts[AdvertPreIdx]
    IN /\ chat_ev.pkt.timestamp <= old.last_advert_timestamp =>
            /\ ChatUnchanged
            /\ ~AdvertAccepted
            /\ new.name = old.name
            /\ new.type = old.type
            /\ new.last_advert_timestamp = old.last_advert_timestamp
       /\ AdvertAccepted =>
            /\ new.last_advert_timestamp = chat_ev.pkt.timestamp
            /\ new.last_advert_timestamp > old.last_advert_timestamp
       /\ new.last_advert_timestamp >= old.last_advert_timestamp

\* a well-formed advert that carries another name and type, with a timestamp
\* equal to the contact's last_advert_timestamp, was received
C11_Witness ==
  /\ AdvertOp
  /\ AdvertPreIdx # 0
  /\ chat_ev.pkt.app_data = OtherAppData
  /\ chat_ev.pre.contacts[AdvertPreIdx].name # OtherAppData.name
  /\ chat_ev.pkt.timestamp = chat_ev.pre.contacts[AdvertPreIdx].last_advert_timestamp

ContactsFullBefore == ~(Len(chat_ev.pre.contacts) < MAX_CONTACTS)
ClientsFullBefore == ~(Len(ev.pre.known_clients) < MAX_CLIENTS)

\* C12: the contact table never holds more than MAX_CONTACTS contacts and
\* the client table never more than MAX_CLIENTS clients; when the table is
\* full, an advert or a login from an identity that is not in it, and an
\* addContact, leave the table and its count unchanged, with no
\* onDiscoveredContact upcall, no reply and (addContact) the result false.
C12_TablesBounded ==
  /\ Len(contacts) <= MAX_CONTACTS
  /\ Len(known_clients) <= MAX_CLIENTS
  /\ (AdvertOp /\ ContactsFullBefore /\ AdvertPreIdx = 0) =>
       /\ ChatUnchanged
       /\ Len(contacts) = Len(chat_ev.pre.contacts)
       /\ ~AdvertAccepted
  /\ (chat_ev.op = "add" /\ ContactsFullBefore) =>
       /\ ChatUnchanged
       /\ Len(contacts) = Len(chat_ev.pre.contacts)
       /\ chat_ev.rc = 0
  /\ (ev.op = "anon" /\ ClientsFullBefore /\ AnonPreIdx = 0) =>
       /\ RepUnchanged
       /\ Len(known_clients) = Len(ev.pre.known_clients)
       /\ sent = <<>>

\* a well-formed advert from an identity that is not in the full contact
\* table was received
C12_WitnessAdvert ==
  /\ AdvertOp
  /\ ContactsFullBefore
  /\ AdvertPreIdx = 0
  /\ AdvertDataOk(chat_ev.pkt.app_data)

\* a login with the admin password from an identity that is not in the full
\* client table was received while a packet was free
C12_Witness ==
  /\ ev.op = "anon"
  /\ ClientsFullBefore
  /\ AnonPreIdx = 0
  /\ ev.pkt.password = ADMIN_PASSWORD
  /\ ev.pre.pool_free > 0

(***************************************************************************)
(* Properties of the repeater's answer to a CLI text message               *)
(***************************************************************************)
\* a CLI text message from a known client with a strictly newer timestamp
CliTextCase ==
  /\ PeerHandled
  /\ ev.pkt.type = "TXT_MSG"
  /\ ev.pkt.flags = 0
  /\ Len(ev.pkt.text) > 0
  /\ ev.pkt.timestamp > PreLastTimestamp
CliAdvertCommand == StartsWith(SkipSpaces(ev.pkt.text), T_advert)
IsCliAck(s) == s.pkt.ptype = "ACK" /\ s.delay = 0
IsCliReply(s) ==
  /\ s.pkt.ptype = "TXT_MSG"
  /\ s.delay = CLI_REPLY_DELAY_MILLIS
  /\ s.pkt.body.data.text = ev.reply
\* packets the step needs for the ACK, the command and the reply
CliPacketsNeeded == IF CliAdvertCommand THEN 3 ELSE 2

CliReplyQueued ==
  /\ CliTextCase
  /\ ~ev.rebooted
  /\ Len(sent) >= 1
  /\ sent[Len(sent)].pkt.ptype = "TXT_MSG"
CliReplyTimestamp == sent[Len(sent)].pkt.body.data.timestamp

\* C14: the text reply to a CLI command carries a timestamp different from
\* the sender's timestamp of the command: it is the RTC as the command
\* handler left it, or that value plus one (modulo 2^32) when it equals the
\* sender's timestamp.
C14_ReplyTimestampDiffers ==
  CliReplyQueued =>
    /\ CliReplyTimestamp # ev.pkt.timestamp
    /\ CliReplyTimestamp \in 0..UINT32_MAX
    /\ CliReplyTimestamp =
         IF rtc = ev.pkt.timestamp THEN (rtc + 1) % (UINT32_MAX + 1) ELSE rtc

\* a command whose sender timestamp is UINT32_MAX was answered while the RTC
\* was UINT32_MAX too: the reply's timestamp wrapped to 0
C14_Witness ==
  /\ CliReplyQueued
  /\ ev.pkt.timestamp = UINT32_MAX
  /\ rtc = UINT32_MAX
  /\ CliReplyTimestamp = 0

\* "clock sync" set the RTC and was answered
C14_WitnessClockSync ==
  /\ CliReplyQueued
  /\ ClockSyncExecuted
  /\ rtc # ev.pre.rtc

(***************************************************************************)
(* Properties of searchPeersByHash                                         *)
(***************************************************************************)
\* the indexes of the peers whose hash matches that of the packet's sender
MatchingContacts ==
  {i \in 1..Len(contacts) : hash_id(contacts[i].id) = hash_id(chat_ev.pkt.sender)}
MatchingClients ==
  {i \in 1..Len(known_clients) : hash_id(known_clients[i].id) = hash_id(ev.pkt.sender)}
\* res lists indexes of the table in increasing order, so each at most once
InTableOrder(res) == \A j, k \in 1..Len(res) : j < k => res[j] < res[k]
Returned(res) == {res[k] : k \in 1..Len(res)}

C15_WitnessClients ==
  /\ ev.op = "search"
  /\ ev.pkt.matching_peer_indexes = <<1, 2>>
  /\ ev.idx = 2

(***************************************************************************)
(* Properties of the chat node's answer to a text message                  *)
(***************************************************************************)
\* a plain text message of a contact was handed to onPeerDataRecv
ChatTextCase ==
  /\ chat_ev.op = "peer"
  /\ chat_ev.idx # 0
  /\ chat_ev.pkt.type = "TXT_MSG"
  /\ Len(chat_ev.pkt.text) > 0
  /\ chat_ev.pkt.flags \div 4 = 0
\* timestamp of the last message of that contact passed to the application
\* before the step
ChatLastReceived ==
  IF chat_ev.idx <= Len(chat_ev.pre.hist.received)
    THEN chat_ev.pre.hist.received[chat_ev.idx] ELSE NoMessage

\* C16 as stated: a text message of a contact whose timestamp is not
\* strictly greater than that of the last message accepted from the contact
\* causes no onMessageRecv upcall and no ACK or path-return.
C16_ChatReplayRejected ==
  (ChatTextCase /\ ChatLastReceived # NoMessage
     /\ chat_ev.pkt.timestamp <= ChatLastReceived) =>
    /\ ~HasUpcall(chat_ev.upcalls, "onMessageRecv")
    /\ chat_sent = <<>>

\* what the code does: every plain text message of a contact is passed to
\* onMessageRecv, whatever its timestamp
C16_EveryTextAccepted ==
  ChatTextCase =>
    /\ CountUpcalls(chat_ev.upcalls, "onMessageRecv") = 1
    /\ hist.received[chat_ev.idx] = chat_ev.pkt.timestamp
    /\ chat_ev.pre.pool_free > 0 => Len(chat_sent) = 1

\* the same text message was delivered a second time while a packet was free
C16_SecondDelivery ==
  /\ ChatTextCase
  /\ chat_ev.pkt.timestamp = ChatLastReceived
  /\ chat_ev.pre.pool_free > 0

(***************************************************************************)
(* Properties of out_path_len                                              *)
(***************************************************************************)
PathLenInRange(len) == len = -1 \/ len \in 0..MAX_PATH_SIZE
AllInRange(table) == \A k \in 1..Len(table) : PathLenInRange(table[k].out_path_len)

\* C17 as stated: in every reachable state the out_path_len of every contact
\* and of every client of the repeater is -1 or between 0 and MAX_PATH_SIZE.
C17_OutPathLenInRange ==
  /\ AllInRange(contacts)
  /\ AllInRange(known_clients)

\* what the code does: a path-return from a known peer stores the length of
\* the received path whatever it is, and a step that receives no path-return
\* longer than MAX_PATH_SIZE keeps every out_path_len in range
C17_PathLenStoredUnchecked ==
  /\ (chat_ev.op = "path" /\ chat_ev.idx # 0) =>
       contacts[chat_ev.idx].out_path_len = Len(chat_ev.pkt.path)
  /\ (ev.op = "path" /\ ev.idx # 0) =>
       known_clients[ev.idx].out_path_len = Len(ev.pkt.path)
  /\ (/\ chat_ev.op # "none"
      /\ AllInRange(chat_ev.pre.contacts)
      /\ chat_ev.op = "path" => Len(chat_ev.pkt.path) <= MAX_PATH_SIZE
      /\ chat_ev.op = "add" => PathLenInRange(chat_ev.pkt.out_path_len))
       => AllInRange(contacts)
  /\ (/\ ev.op \notin {"none", "boot"}
      /\ AllInRange(ev.pre.known_clients)
      /\ ev.op = "path" => Len(ev.pkt.path) <= MAX_PATH_SIZE)
       => AllInRange(known_clients)

\* a path-return with MAX_PATH_SIZE + 1 hops was received from a client
C17_LongPathStored ==
  /\ ev.op = "path"
  /\ ev.idx # 0
  /\ Len(ev.pkt.path) = MAX_PATH_SIZE + 1
  /\ known_clients[ev.idx].out_path_len = MAX_PATH_SIZE + 1

\* C20: an advert whose app_data is invalid or has no name is dropped with
\* no effect: the contact table (its length, and name, type and
\* last_advert_timestamp of every contact) is unchanged and
\* onDiscoveredContact is not called, whatever the advert's identity and
\* timestamp are.
C20_InvalidAdvertDropped ==
  (AdvertOp /\ (~chat_ev.pkt.app_data.valid \/ ~chat_ev.pkt.app_data.has_name)) =>
    /\ ChatUnchanged
    /\ Len(contacts) = Len(chat_ev.pre.contacts)
    /\ \A k \in 1..Len(contacts) :
         /\ contacts[k].name = chat_ev.pre.contacts[k].name
         /\ contacts[k].type = chat_ev.pre.contacts[k].type
         /\ contacts[k].last_advert_timestamp =
              chat_ev.pre.contacts[k].last_advert_timestamp
    /\ ~AdvertAccepted

\* an advert without a name was received from an identity that is a contact,
\* with a timestamp newer than the contact's last_advert_timestamp
C20_Witness ==
  /\ AdvertOp
  /\ chat_ev.pkt.app_data = NoNameAppData
  /\ AdvertPreIdx # 0
  /\ chat_ev.pkt.timestamp > chat_ev.pre.contacts[AdvertPreIdx].last_advert_timestamp

\* the same with an advert whose app_data is invalid, and with an advert of
\* an identity that is no contact while the table has room
C20_WitnessInvalid ==
  /\ AdvertOp
  /\ chat_ev.pkt.app_data = InvalidAppData
  /\ \/ /\ AdvertPreIdx # 0
        /\ chat_ev.pkt.timestamp >
             chat_ev.pre.contacts[AdvertPreIdx].last_advert_timestamp
     \/ /\ AdvertPreIdx = 0
        /\ ~ContactsFullBefore

ChatSender == chat_ev.pre.contacts[chat_ev.idx]
ChatAckHash ==
  AckHash(chat_ev.pkt.timestamp, chat_ev.pkt.flags, chat_ev.pkt.text, ChatSender.id)
\* the one packet queued is the answer the message's route calls for
ChatAnswered ==
  /\ Len(chat_sent) = 1
  /\ IF chat_ev.pkt.flood
       THEN /\ chat_sent[1].pkt.ptype = "PATH"
            /\ chat_sent[1].pkt.dest = ChatSender.id
            /\ chat_sent[1].pkt.body.path = chat_ev.pkt.path
            /\ chat_sent[1].pkt.body.extra_type = "ACK"
            /\ chat_sent[1].pkt.body.extra = ChatAckHash
            /\ chat_sent[1].route = "flood"
       ELSE /\ chat_sent[1].pkt.ptype = "ACK"
            /\ chat_sent[1].pkt.body = ChatAckHash
            /\ IF ChatSender.out_path_len >= 0
                 THEN /\ chat_sent[1].route = "direct"
                      /\ chat_sent[1].path = ChatSender.out_path
                 ELSE chat_sent[1].route = "flood"

\* C19 as stated: every text message of a contact is answered: a
\* flood-routed one with a path-return carrying the ACK, sent by flood; a
\* direct-routed one with a plain ACK, sent direct along the contact's
\* out_path when it is known and by flood when it is not.
C19_AnswerByRoute == ChatTextCase => ChatAnswered

\* C19: a text message of a contact is passed to onMessageRecv, and when a
\* packet is free it is answered with one packet: a flood-routed message with
\* a path-return that carries the ACK, sent by flood; a direct-routed message
\* with a plain ACK, sent direct along the contact's out_path when it is
\* known and by flood when it is not.  When no packet is free nothing is
\* sent.
C19_AnswerByRouteIfPacketFree ==
  ChatTextCase =>
    /\ CountUpcalls(chat_ev.upcalls, "onMessageRecv") = 1
    /\ contacts = chat_ev.pre.contacts
    /\ IF chat_ev.pre.pool_free > 0
         THEN /\ ChatAnswered
              /\ chat_pool_free = chat_ev.pre.pool_free - 1
         ELSE /\ chat_sent = <<>>
              /\ chat_pool_free = chat_ev.pre.pool_free

\* a direct-routed message of a contact whose out_path is known was answered
\* with an ACK sent direct
C19_Witness ==
  /\ ChatTextCase
  /\ ~chat_ev.pkt.flood
  /\ ChatSender.out_path_len >= 0
  /\ Len(chat_sent) = 1
  /\ chat_sent[1].route = "direct"

\* a flood-routed message was answered with a path-return; a direct-routed
\* message of a contact without out_path with a flooded ACK
C19_WitnessFlood ==
  /\ ChatTextCase
  /\ Len(chat_sent) = 1
  /\ chat_sent[1].route = "flood"
  /\ chat_ev.pkt.flood <=> chat_sent[1].pkt.ptype = "PATH"

(***************************************************************************)
(* Properties of a flood in the line of three repeaters                    *)
(***************************************************************************)
\* node o has flooded its packet, and no copy of it is on the air any more
FloodSent(o) == FloodHash(o) \in seen[o]
FloodOver(o) == FloodSent(o) /\ \A f \in net : f[2].src # FloodNodes[o]

ReqCase == PeerHandled /\ ev.pkt.type = "REQ"
ReqKnownCommand == ev.pkt.payload[1] = CMD_GET_STATS

\* C21: a REQ from a known client with a timestamp newer than the client's
\* last_timestamp but an unknown command byte queues no reply and changes
\* nothing, so last_timestamp is as before and a later request with the same
\* timestamp still passes the replay guard; a REQ changes last_timestamp
\* only when its command is known and its timestamp is newer, and then to
\* that timestamp.
C21_UnknownRequestKeepsTimestamp ==
  /\ (/\ ReqCase
      /\ ~ReqKnownCommand
      /\ ev.pkt.timestamp > PreLastTimestamp)
     => (/\ sent = <<>>
         /\ RepUnchanged
         /\ known_clients[ev.idx].last_timestamp = PreLastTimestamp
         /\ ReplayGuard(ev.pkt.timestamp, known_clients[ev.idx].last_timestamp))
  /\ (/\ ReqCase
      /\ known_clients[ev.idx].last_timestamp # PreLastTimestamp)
     => (/\ ReqKnownCommand
         /\ ev.pkt.timestamp > PreLastTimestamp
         /\ known_clients[ev.idx].last_timestamp = ev.pkt.timestamp)

\* a request with an unknown command byte and a newer timestamp has been
\* received from a logged-in client
C21_Witness ==
  /\ ReqCase
  /\ ~ReqKnownCommand
  /\ ev.pkt.timestamp > PreLastTimestamp
  /\ PreLastTimestamp >= 1
  /\ sent = <<>>

\* a request with a known command has been answered and its timestamp stored
C21_WitnessAccepted ==
  /\ ReqCase
  /\ ReqKnownCommand
  /\ known_clients[ev.idx].last_timestamp = ev.pkt.timestamp
  /\ ev.pkt.timestamp > PreLastTimestamp
  /\ Len(sent) = 1

\* the last step was onPeerDataRecv for a CLI text with a non-zero flags byte
FlaggedTextCase ==
  /\ PeerHandled
  /\ ev.pkt.type = "TXT_MSG"
  /\ Len(ev.pkt.text) > 0
  /\ ev.pkt.flags # 0

\* C22: a CLI text message from a known client with a non-zero flags byte is
\* ignored whatever its timestamp: nothing is queued (no ACK, no reply), no
\* command is executed, and the client table (so last_timestamp), the RTC
\* and the pool are unchanged.
C22_FlaggedTextIgnored ==
  FlaggedTextCase
  => (/\ sent = <<>>
      /\ ~ev.executed
      /\ ~ev.rebooted
      /\ ev.reply = ""
      /\ RepUnchanged
      /\ known_clients[ev.idx].last_timestamp = PreLastTimestamp)

\* a retry (flags 1) with a timestamp newer than the client's last_timestamp
\* has been received from a logged-in client
C22_Witness ==
  /\ FlaggedTextCase
  /\ ev.pkt.flags = 1
  /\ PreLastTimestamp >= 1
  /\ ev.pkt.timestamp > PreLastTimestamp
  /\ sent = <<>>

\* a third retry (flags 3) with an old timestamp has been received
C22_WitnessOld ==
  /\ FlaggedTextCase
  /\ ev.pkt.flags = 3
  /\ ev.pkt.timestamp <= PreLastTimestamp

\* the last step was onAnonDataRecv; how the request relates to the table
AnonCase == ev.op = "anon"
AnonPasswordOk == PasswordMatches(ev.pkt.password)
AnonKnownReplay ==
  AnonPasswordOk /\ AnonPreIdx # 0 /\ ev.pkt.timestamp <= AnonStoredTimestamp
AnonTableFull ==
  AnonPasswordOk /\ AnonPreIdx = 0 /\ ~(Len(ev.pre.known_clients) < MAX_CLIENTS)
AnonNewSenderReplay ==
  /\ AnonPasswordOk
  /\ AnonPreIdx = 0
  /\ Len(ev.pre.known_clients) < MAX_CLIENTS
  /\ ev.pkt.timestamp = 0
AnonAccepted ==
  /\ AnonPasswordOk
  /\ ev.pkt.timestamp > AnonStoredTimestamp
  /\ (Len(ev.pre.known_clients) < MAX_CLIENTS \/ AnonPreIdx # 0)
AnonTableUnchanged == known_clients = ev.pre.known_clients

C23_WitnessKnown ==
  /\ AnonCase
  /\ AnonKnownReplay
  /\ ev.pkt.timestamp >= 1
  /\ ev.pkt.timestamp = AnonStoredTimestamp
  /\ sent = <<>>
  /\ AnonTableUnchanged

\* C24 (as claimed): "clock sync" never decreases the RTC, whatever the
\* sender timestamp, and "clock sync" typed on the serial CLI (sender
\* timestamp 0) leaves the RTC unchanged.
C24_ClockSyncNeverDecreases ==
  ClockSyncExecuted =>
    /\ rtc >= ev.pre.rtc
    /\ ev.op = "serial" => rtc = ev.pre.rtc

(***************************************************************************)
(* Properties of the identities in the tables                              *)
(***************************************************************************)
\* every identity is held by at most one entry of the table
DistinctIds(table) ==
  \A i \in 1..Len(table) : \A j \in 1..Len(table) :
    table[i].id = table[j].id => i = j
ClientsDistinct == DistinctIds(known_clients)
ContactsDistinct == DistinctIds(contacts)

\* C25 (as claimed): after any sequence of adverts, addContact calls and
\* logins, known_clients and contacts each hold every identity at most once.
C25_IdentitiesUnique == ClientsDistinct /\ ContactsDistinct

(***************************************************************************)
(* Properties of the ACK wait under a fair scheduler                       *)
(***************************************************************************)
\* the expected ACKs of the messages the node can send
SentHashes ==
  {AckHash(ts, attempt % 4, text, CHAT_ID) :
     ts \in 0..(MaxMillis \div MillisPerSec), attempt \in ChatAttempts,
     text \in ChatTexts}

\* sendMessage has just returned SENT_FLOOD or SENT_DIRECT for the message
\* whose expected ACK is h
MsgSent(h) ==
  /\ chat_ev.op = "send"
  /\ chat_ev.rc # MSG_SEND_FAILED
  /\ expected_ack = h
\* the wait for h has just been cancelled by its ACK
MsgAcked(h) ==
  /\ chat_ev.op \in {"ack", "path"}
  /\ ChatArmedBefore
  /\ ChatPreExpected = h
  /\ txt_send_timeout = 0
\* onSendTimeout has just been invoked while h was the message waited for
MsgTimedOut(h) ==
  /\ chat_ev.op = "loop"
  /\ HasUpcall(chat_ev.upcalls, "onSendTimeout")
  /\ ChatPreExpected = h
\* another sendMessage call has just been made while h was waited for, and
\* has re-armed the timer or, failing, replaced the expected ACK
MsgSuperseded(h) ==
  /\ chat_ev.op = "send"
  /\ ChatArmedBefore
  /\ ChatPreExpected = h
  /\ (chat_ev.rc # MSG_SEND_FAILED \/ expected_ack # h)

C26_WitnessTimeout ==
  /\ chat_ev.op = "loop"
  /\ ChatArmedBefore
  /\ HasUpcall(chat_ev.upcalls, "onSendTimeout")
  /\ txt_send_timeout = 0
  /\ ChatPreExpected \in SentHashes

====
